---- MODULE Spec2Model ----
(***************************************************************************)
(* A model of the AlienFX ACPI/WMI controller: the theme compiler          *)
(* (_make_loop_cmds, _make_zone_cmds), the handshake of set_theme          *)
(* (acquire, ping, reset, readiness poll, transmission, release) and the   *)
(* sysfs driver below it, for the Alienware Alpha ASM100 controller.       *)
(***************************************************************************)
EXTENDS Integers, Sequences, FiniteSets, TLC

VARIABLES
  theme,          \* themefile.theme: the theme dict
  theme_states,   \* the state names among the theme dict's keys, in dict order
  control_taken,  \* driver._control_taken
  pc,             \* the position of the running call
  exc,            \* the exception raised in set_theme's try block, or "none"
  result,         \* how set_theme ended: "none" (not yet), "returned", "raised"
  wlog,           \* the packets handed to driver.write_packet, in order
  wfail,          \* the index in wlog of the first write that failed, or 0
  wafter,         \* a packet reached the control file after a failed write
  ready,          \* _wait_controller_ready's local ready
  errcount,       \* _wait_controller_ready's local errcount
  polls,          \* get-status packets sent by _wait_controller_ready
  resps,          \* the values the most recent read_packet calls returned
  sidx,           \* the index in state_map of the state being compiled or sent
  cmds,           \* set_theme's local cmds (and the compiler's return value)
  cmds_boot,      \* set_theme's local cmds_boot
  queue,          \* the commands the running _send_cmds has still to send
  zone_arg,       \* the zone names the last _get_zone_codes call was given
  zone_code,      \* the zone code the last zone registry call returned
  zone_pkt,       \* the three zone bytes the last get_zone_name call was given
  zone_str,       \* the string the last get_zone_name call returned, in pieces
  state_code,     \* the state code the last get_state_name call was given
  state_str,      \* the name the last get_state_name call returned
  theme_name,     \* themefile.theme_name
  _theme_dir,     \* themefile._theme_dir, or Unset while the attribute is not set
  files,          \* the .json files of the theme directory, by stem
  file_call,      \* the method of the theme file called last
  file_arg,       \* the theme name that call was given, or None
  file_result,    \* what that call returned ("None", "True", "False") or raised
  file_logged,    \* that call logged an error it caught
  edit_action,    \* the action dict of the last set_action_* call, after it
  edit_was,       \* that action dict as it was before the call
  edit_arg,       \* the type or the colour list that call was given
  edit_call,      \* the set_action_* method called last, or "none"
  zone_asked,     \* the state and the zone the last get_zone_actions was given
  zone_actions    \* what that get_zone_actions call returned

driverVars == <<control_taken, exc, result, wlog, wfail, wafter>>
pollVars == <<ready, errcount, polls, resps>>
zoneVars == <<zone_arg, zone_code, zone_pkt, zone_str>>
stateVars == <<state_code, state_str>>
fileVars ==
  <<theme_name, _theme_dir, files, file_call, file_arg, file_result, file_logged>>
editVars ==
  <<edit_action, edit_was, edit_arg, edit_call, zone_asked, zone_actions>>
vars == <<theme, theme_states, pc, driverVars, pollVars, sidx, cmds, cmds_boot,
          queue, zoneVars, stateVars, fileVars, editVars>>

\* ------------------------------------------------------------------ bounds
\* state-items a theme holds (summed over its states)
MaxItems == 2
\* actions a theme holds (summed over the loops of its items)
MaxActions == 2
\* get-status packets one readiness poll may send before the model stops it
MaxPolls == 11

\* ------------------------------------------- controller_asm100.py constants
ALIEN_HEAD == 0
SIDE_LEFT == 1
POWER_BUTTON == 0
RESET_ALL_LIGHTS_OFF == 3
RESET_ALL_LIGHTS_ON == 4
BOOT == 1
AC_SLEEP == 2
AC_CHARGED == 5
AC_ON == 8
DEFAULT_SPEED == 200

ZONE_ALIEN_HEAD == "Alien Head"
ZONE_POWER_BUTTON == "Power Button"
STATE_BOOT == "Boot"
STATE_AC_SLEEP == "AC Sleep"
STATE_AC_CHARGED == "AC Charged"
STATE_AC_ON == "AC On"

\* zone_map, a dict: its keys in insertion order, and the mapping
zone_order == <<ZONE_ALIEN_HEAD, ZONE_POWER_BUTTON, "SIDE_LEFT">>
zone_map == (ZONE_ALIEN_HEAD :> ALIEN_HEAD) @@ (ZONE_POWER_BUTTON :> POWER_BUTTON)
            @@ ("SIDE_LEFT" :> SIDE_LEFT)

\* state_map, a dict: its keys in insertion order, and the mapping
state_order == <<STATE_BOOT, STATE_AC_SLEEP, STATE_AC_CHARGED, STATE_AC_ON>>
state_map == (STATE_BOOT :> BOOT) @@ (STATE_AC_SLEEP :> AC_SLEEP)
             @@ (STATE_AC_CHARGED :> AC_CHARGED) @@ (STATE_AC_ON :> AC_ON)

\* reset_types, a dict from reset code to reset name
reset_order == <<RESET_ALL_LIGHTS_OFF, RESET_ALL_LIGHTS_ON>>
reset_types == (RESET_ALL_LIGHTS_OFF :> "all-lights-off")
               @@ (RESET_ALL_LIGHTS_ON :> "all-lights-on")

\* ------------------------------------------------- themefile.py keywords
KW_ACTION_TYPE_FIXED == "fixed"
KW_ACTION_TYPE_BLINK == "blink"
KW_ACTION_TYPE_MORPH == "morph"
KW_SPEED == "speed"
KW_ZONES == "zones"
KW_LOOP == "loop"
KW_ACTION_TYPE == "type"
KW_ACTION_COLOURS == "colours"
\* Python's None, as get_action_type returns it for an action without a type
None == "<None>"

\* --------------------------------------------------- Python's int operators
\* x | y on Python's ints (a negative int has infinitely many leading ones)
RECURSIVE BitOr(_, _)
BitOr(x, y) ==
  IF x = 0 THEN y
  ELSE IF y = 0 THEN x
  ELSE IF x = -1 \/ y = -1 THEN -1
  ELSE (IF x % 2 = 1 \/ y % 2 = 1 THEN 1 ELSE 0) + 2 * BitOr(x \div 2, y \div 2)

\* x & y on Python's ints
RECURSIVE BitAnd(_, _)
BitAnd(x, y) ==
  IF x = 0 \/ y = 0 THEN 0
  ELSE IF x = -1 THEN y
  ELSE IF y = -1 THEN x
  ELSE (IF x % 2 = 1 /\ y % 2 = 1 THEN 1 ELSE 0) + 2 * BitAnd(x \div 2, y \div 2)

\* ~x on an unbounded int: a negative number for x >= 0
BitNot(x) == (-x) - 1

\* ------------------------------------------------------------ packet codec
\* the 24-bit zone space of a packet's three zone bytes
FULL_ZONE_MASK == 16777215
\* the status byte of a controller that is ready
STATUS_READY == 16
\* the status byte of a controller that is busy
STATUS_BUSY == 17
\* the length of a packet
PACKET_LENGTH == 9

\* a packet, by its command and operands (the zone operand is what the three
\* zone bytes hold: the low 24 bits of the zone code)
Packet(cmd, block, zone, c1, c2, arg) ==
  [cmd |-> cmd, block |-> block, zone |-> zone % (FULL_ZONE_MASK + 1),
   c1 |-> c1, c2 |-> c2, arg |-> arg]

\* the three zone bytes of a packet, big-endian over the 24-bit space
zone_bytes(zone) ==
  LET z == zone % (FULL_ZONE_MASK + 1)
  IN <<z \div 65536, (z \div 256) % 256, z % 256>>

make_cmd_get_status == Packet("get_status", 0, 0, <<>>, <<>>, 0)
make_cmd_reset(reset_code) == Packet("reset", 0, 0, <<>>, <<>>, reset_code)
make_cmd_set_colour(block, zone, colour) ==
  Packet("set_colour", block, zone, colour, <<>>, 0)
make_cmd_set_blink_colour(block, zone, colour) ==
  Packet("set_blink_colour", block, zone, colour, <<>>, 0)
make_cmd_set_morph_colour(block, zone, colour1, colour2) ==
  Packet("set_morph_colour", block, zone, colour1, colour2, 0)
make_cmd_save_next(state) == Packet("save_next", 0, 0, <<>>, <<>>, state)
make_cmd_loop_block_end == Packet("loop_block_end", 0, 0, <<>>, <<>>, 0)
make_cmd_save == Packet("save", 0, 0, <<>>, <<>>, 0)
make_cmd_set_speed(speed) == Packet("set_speed", 0, 0, <<>>, <<>>, speed)
make_cmd_transmit_execute == Packet("transmit_execute", 0, 0, <<>>, <<>>, 0)

\* ------------------------------------------------------- theme file access
\* the theme after construction: an empty dict
EmptyTheme == [k \in {} |-> <<>>]

\* a get_speed that ignores the theme's speed entry
get_speed_default_only(th) == DEFAULT_SPEED

get_speed(th) == IF KW_SPEED \in DOMAIN th THEN th[KW_SPEED] ELSE DEFAULT_SPEED

\* a get_state_items that invents an item for a state the theme lacks
get_state_items_default(th, state_name) ==
  IF state_name \notin DOMAIN th
    THEN << (KW_ZONES :> <<"SIDE_LEFT">>)
            @@ (KW_LOOP :> << (KW_ACTION_TYPE :> KW_ACTION_TYPE_FIXED)
                              @@ (KW_ACTION_COLOURS :> << <<15, 0, 0>> >>) >>) >>
    ELSE th[state_name]

get_state_items(th, state_name) ==
  IF state_name \notin DOMAIN th THEN <<>> ELSE th[state_name]

get_zone_names(state_item) ==
  IF KW_ZONES \notin DOMAIN state_item THEN <<>> ELSE state_item[KW_ZONES]

get_loop_items(state_item) ==
  IF KW_LOOP \notin DOMAIN state_item THEN <<>> ELSE state_item[KW_LOOP]

get_action_type(action) ==
  IF KW_ACTION_TYPE \notin DOMAIN action THEN None ELSE action[KW_ACTION_TYPE]

get_action_colours(action) ==
  IF KW_ACTION_COLOURS \notin DOMAIN action THEN <<>> ELSE action[KW_ACTION_COLOURS]

make_zone_action(type, colours) ==
  (KW_ACTION_TYPE :> type) @@ (KW_ACTION_COLOURS :> colours)

\* the action dict after set_action_type(action, action_type), lines 357-364
set_action_type(action, action_type) ==
  IF action_type \in {KW_ACTION_TYPE_FIXED, KW_ACTION_TYPE_BLINK, KW_ACTION_TYPE_MORPH}
    THEN [k \in DOMAIN action \cup {KW_ACTION_TYPE} |->
            IF k = KW_ACTION_TYPE THEN action_type ELSE action[k]]
    ELSE action

\* a set_action_colours that stores a list of any length in a typed action
set_action_colours_any_length(action, action_colours) ==
  IF get_action_type(action) = None THEN action
  ELSE [k \in DOMAIN action \cup {KW_ACTION_COLOURS} |->
          IF k = KW_ACTION_COLOURS THEN action_colours ELSE action[k]]

\* the action dict after set_action_colours(action, action_colours), lines
\* 373-386
set_action_colours(action, action_colours) ==
  LET action_type == get_action_type(action)
      stored == [k \in DOMAIN action \cup {KW_ACTION_COLOURS} |->
                   IF k = KW_ACTION_COLOURS THEN action_colours ELSE action[k]]
  IN IF action_type = None THEN action
     ELSE IF action_type \in {KW_ACTION_TYPE_FIXED, KW_ACTION_TYPE_BLINK}
       THEN IF Len(action_colours) # 1 THEN action ELSE stored
     ELSE IF action_type = KW_ACTION_TYPE_MORPH
       THEN IF Len(action_colours) # 2 THEN action ELSE stored
     ELSE action

\* a lookup that stops at the first item that names the zone, loop or not
RECURSIVE zone_actions_of_first_named(_, _)
zone_actions_of_first_named(items, zone) ==
  IF items = <<>> THEN <<>>
  ELSE LET item == Head(items)
       IN IF KW_ZONES \notin DOMAIN item
            THEN zone_actions_of_first_named(Tail(items), zone)
          ELSE IF zone \notin {item[KW_ZONES][i] : i \in DOMAIN item[KW_ZONES]}
            THEN zone_actions_of_first_named(Tail(items), zone)
          ELSE get_loop_items(item)

\* the for loop of get_zone_actions, lines 164-172, over these items
RECURSIVE zone_actions_of(_, _)
zone_actions_of(items, zone) ==
  IF items = <<>> THEN <<>>
  ELSE LET item == Head(items)
       IN IF KW_ZONES \notin DOMAIN item
            THEN zone_actions_of(Tail(items), zone)
          ELSE IF zone \notin {item[KW_ZONES][i] : i \in DOMAIN item[KW_ZONES]}
            THEN zone_actions_of(Tail(items), zone)
          ELSE IF KW_LOOP \notin DOMAIN item
            THEN zone_actions_of(Tail(items), zone)
          ELSE item[KW_LOOP]

\* get_zone_actions(state, zone), lines 157-173
get_zone_actions(th, state, zone) ==
  IF state \notin DOMAIN th THEN <<>> ELSE zone_actions_of(th[state], zone)

\* the theme dict after set_zone_actions(state, zones, actions)
set_zone_actions(th, state, zones, actions) ==
  LET state_item == (KW_ZONES :> zones) @@ (KW_LOOP :> actions)
  IN IF state \notin DOMAIN th
       THEN th @@ (state :> <<state_item>>)
       ELSE [th EXCEPT ![state] = Append(@, state_item)]

\* ------------------------------------------------------------ zone registry
\* reduce(lambda x,y: x|y, zone_codes, 0) over the first n zones of the map
RECURSIVE zone_codes_union(_)
zone_codes_union(n) ==
  IF n = 0 THEN 0 ELSE BitOr(zone_codes_union(n - 1), zone_map[zone_order[n]])

get_no_zone_code_first == BitNot(zone_map[zone_order[1]])
_get_no_zone_code == BitNot(zone_codes_union(Len(zone_order)))

\* a _get_zone_codes in which a name the zone map lacks selects every zone
RECURSIVE get_zone_codes_unknown_all(_)
get_zone_codes_unknown_all(zone_names) ==
  IF zone_names = <<>> THEN 0
  ELSE LET n == Len(zone_names)
           zones == get_zone_codes_unknown_all(SubSeq(zone_names, 1, n - 1))
           zone == zone_names[n]
       IN IF zone \in DOMAIN zone_map
            THEN BitOr(zones, zone_map[zone])
            ELSE FULL_ZONE_MASK

RECURSIVE _get_zone_codes(_)
_get_zone_codes(zone_names) ==
  IF zone_names = <<>> THEN 0
  ELSE LET n == Len(zone_names)
           zones == _get_zone_codes(SubSeq(zone_names, 1, n - 1))
           zone == zone_names[n]
       IN IF zone \in DOMAIN zone_map THEN BitOr(zones, zone_map[zone]) ELSE zones

\* a get_state_name that names the last state of the map for a code no state
\* has
RECURSIVE get_state_name_from_no_unknown(_, _)
get_state_name_from_no_unknown(state, i) ==
  IF i >= Len(state_order) THEN state_order[Len(state_order)]
  ELSE IF state_map[state_order[i]] = state THEN state_order[i]
  ELSE get_state_name_from_no_unknown(state, i + 1)

\* get_state_name's for loop over state_map, from its i-th key on
RECURSIVE get_state_name_from(_, _)
get_state_name_from(state, i) ==
  IF i > Len(state_order) THEN "UNKNOWN"
  ELSE IF state_map[state_order[i]] = state THEN state_order[i]
  ELSE get_state_name_from(state, i + 1)

get_state_name(state) == get_state_name_from(state, 1)

RECURSIVE get_reset_code_from(_, _)
get_reset_code_from(reset_name, i) ==
  IF i > Len(reset_order) THEN 0
  ELSE IF reset_name = reset_types[reset_order[i]] THEN reset_order[i]
  ELSE get_reset_code_from(reset_name, i + 1)

_get_reset_code(reset_name) == get_reset_code_from(reset_name, 1)

\* Python's hex(n) for n >= 0, in pieces: "0x" and the digits
HexDigit(d) ==
  <<"0", "1", "2", "3", "4", "5", "6", "7", "8", "9", "a", "b", "c", "d", "e", "f">>[d + 1]

RECURSIVE hex_digits(_)
hex_digits(n) ==
  IF n < 16 THEN <<HexDigit(n)>>
  ELSE Append(hex_digits(n \div 16), HexDigit(n % 16))

hex(n) == <<"0x">> \o hex_digits(n)

\* zone_name += piece, after a "," when zone_name is not empty
JoinComma(zone_name, pieces) ==
  (IF zone_name # <<>> THEN Append(zone_name, ",") ELSE zone_name) \o pieces

\* a get_zone_name that leaves the bits of a listed zone in zone_mask
RECURSIVE zone_name_from_keep_bits(_, _, _)
zone_name_from_keep_bits(i, zone_mask, zone_name) ==
  IF i > Len(zone_order)
    THEN IF zone_mask # 0
           THEN JoinComma(zone_name, <<"UNKNOWN(">> \o hex(zone_mask) \o <<")">>)
           ELSE zone_name
    ELSE LET zone == zone_order[i]
             bit_mask == zone_map[zone]
         IN IF BitAnd(zone_mask, bit_mask) # 0
              THEN zone_name_from_keep_bits(i + 1, zone_mask,
                                            JoinComma(zone_name, <<zone>>))
              ELSE zone_name_from_keep_bits(i + 1, zone_mask, zone_name)

\* get_zone_name from the i-th zone of the map on, lines 223-233: the string
\* built, as the sequence of the pieces appended to it
RECURSIVE zone_name_from(_, _, _)
zone_name_from(i, zone_mask, zone_name) ==
  IF i > Len(zone_order)
    THEN IF zone_mask # 0
           THEN JoinComma(zone_name, <<"UNKNOWN(">> \o hex(zone_mask) \o <<")">>)
           ELSE zone_name
    ELSE LET zone == zone_order[i]
             bit_mask == zone_map[zone]
         IN IF BitAnd(zone_mask, bit_mask) # 0
              THEN zone_name_from(i + 1, BitAnd(zone_mask, BitNot(bit_mask)),
                                  JoinComma(zone_name, <<zone>>))
              ELSE zone_name_from(i + 1, zone_mask, zone_name)

get_zone_name(pkt) ==
  zone_name_from(1, pkt[1] * 65536 + pkt[2] * 256 + pkt[3], <<>>)

\* ------------------------------------------------------------ theme compiler
\* a loop that stops at the first malformed action instead of skipping it
RECURSIVE make_loop_cmds_break(_, _, _)
make_loop_cmds_break(zones, block, loop_items) ==
  IF loop_items = <<>> THEN <<>>
  ELSE LET item == Head(loop_items)
           item_type == get_action_type(item)
           item_colours == get_action_colours(item)
           rest == make_loop_cmds_break(zones, block, Tail(loop_items))
       IN CASE item_type = KW_ACTION_TYPE_FIXED ->
                 IF Len(item_colours) # 1 THEN <<>>
                 ELSE <<make_cmd_set_colour(block, zones, item_colours[1])>> \o rest
            [] item_type = KW_ACTION_TYPE_BLINK ->
                 IF Len(item_colours) # 1 THEN <<>>
                 ELSE <<make_cmd_set_blink_colour(block, zones, item_colours[1])>> \o rest
            [] item_type = KW_ACTION_TYPE_MORPH ->
                 IF Len(item_colours) # 2 THEN <<>>
                 ELSE <<make_cmd_set_morph_colour(
                          block, zones, item_colours[1], item_colours[2])>> \o rest
            [] OTHER -> rest

RECURSIVE _make_loop_cmds(_, _, _)
_make_loop_cmds(zones, block, loop_items) ==
  IF loop_items = <<>> THEN <<>>
  ELSE LET item == Head(loop_items)
           item_type == get_action_type(item)
           item_colours == get_action_colours(item)
           rest == _make_loop_cmds(zones, block, Tail(loop_items))
       IN CASE item_type = KW_ACTION_TYPE_FIXED ->
                 IF Len(item_colours) # 1 THEN rest
                 ELSE <<make_cmd_set_colour(block, zones, item_colours[1])>> \o rest
            [] item_type = KW_ACTION_TYPE_BLINK ->
                 IF Len(item_colours) # 1 THEN rest
                 ELSE <<make_cmd_set_blink_colour(block, zones, item_colours[1])>> \o rest
            [] item_type = KW_ACTION_TYPE_MORPH ->
                 IF Len(item_colours) # 2 THEN rest
                 ELSE <<make_cmd_set_morph_colour(
                          block, zones, item_colours[1], item_colours[2])>> \o rest
            [] OTHER -> rest

\* the packets of one item's block: lines 383-389, for a non-empty loop_cmds
RECURSIVE block_cmds_no_save_before_end(_, _, _)
block_cmds_no_save_before_end(state, loop_cmds, boot) ==
  IF loop_cmds = <<>> THEN <<make_cmd_loop_block_end>>
  ELSE (IF ~boot THEN <<make_cmd_save_next(state)>> ELSE <<>>)
       \o <<Head(loop_cmds)>>
       \o block_cmds_no_save_before_end(state, Tail(loop_cmds), boot)

RECURSIVE block_cmds_save_in_boot(_, _, _)
block_cmds_save_in_boot(state, loop_cmds, boot) ==
  IF loop_cmds = <<>>
    THEN <<make_cmd_save_next(state), make_cmd_loop_block_end>>
    ELSE <<make_cmd_save_next(state), Head(loop_cmds)>>
         \o block_cmds_save_in_boot(state, Tail(loop_cmds), boot)

\* the packets of one item's block with the last loop command first
RECURSIVE block_cmds_newest_first(_, _, _)
block_cmds_newest_first(state, loop_cmds, boot) ==
  IF loop_cmds = <<>>
    THEN (IF ~boot THEN <<make_cmd_save_next(state)>> ELSE <<>>)
         \o <<make_cmd_loop_block_end>>
    ELSE (IF ~boot THEN <<make_cmd_save_next(state)>> ELSE <<>>)
         \o <<loop_cmds[Len(loop_cmds)]>>
         \o block_cmds_newest_first(state, SubSeq(loop_cmds, 1, Len(loop_cmds) - 1),
                                    boot)

RECURSIVE block_cmds(_, _, _)
block_cmds(state, loop_cmds, boot) ==
  IF loop_cmds = <<>>
    THEN (IF ~boot THEN <<make_cmd_save_next(state)>> ELSE <<>>)
         \o <<make_cmd_loop_block_end>>
    ELSE (IF ~boot THEN <<make_cmd_save_next(state)>> ELSE <<>>)
         \o <<Head(loop_cmds)>>
         \o block_cmds(state, Tail(loop_cmds), boot)

\* a for loop in which an item without action packets takes a block number
RECURSIVE state_items_cmds_block_per_item(_, _, _, _, _, _)
state_items_cmds_block_per_item(state, state_items, i, zone_cmds, block, boot) ==
  IF i > Len(state_items) THEN [zone_cmds |-> zone_cmds, block |-> block]
  ELSE LET item == state_items[i]
           zone_codes == _get_zone_codes(get_zone_names(item))
           loop_items == get_loop_items(item)
           loop_cmds == _make_loop_cmds(zone_codes, block, loop_items)
       IN state_items_cmds_block_per_item(
            state, state_items, i + 1,
            IF loop_cmds # <<>>
              THEN zone_cmds \o block_cmds(state, loop_cmds, boot)
              ELSE zone_cmds,
            block + 1, boot)

\* a for loop whose boot replay keeps every item in block 1
RECURSIVE state_items_cmds_boot_one_block(_, _, _, _, _, _)
state_items_cmds_boot_one_block(state, state_items, i, zone_cmds, block, boot) ==
  IF i > Len(state_items) THEN [zone_cmds |-> zone_cmds, block |-> block]
  ELSE LET item == state_items[i]
           zone_codes == _get_zone_codes(get_zone_names(item))
           loop_items == get_loop_items(item)
           loop_cmds == _make_loop_cmds(zone_codes, block, loop_items)
       IN IF loop_cmds # <<>>
            THEN state_items_cmds_boot_one_block(
                   state, state_items, i + 1,
                   zone_cmds \o block_cmds(state, loop_cmds, boot),
                   IF boot THEN block ELSE block + 1, boot)
            ELSE state_items_cmds_boot_one_block(
                   state, state_items, i + 1, zone_cmds, block, boot)

\* a for loop that emits the block of an item without action packets too
RECURSIVE state_items_cmds_no_skip(_, _, _, _, _, _)
state_items_cmds_no_skip(state, state_items, i, zone_cmds, block, boot) ==
  IF i > Len(state_items) THEN [zone_cmds |-> zone_cmds, block |-> block]
  ELSE LET item == state_items[i]
           zone_codes == _get_zone_codes(get_zone_names(item))
           loop_items == get_loop_items(item)
           loop_cmds == _make_loop_cmds(zone_codes, block, loop_items)
       IN state_items_cmds_no_skip(state, state_items, i + 1,
                                   zone_cmds \o block_cmds(state, loop_cmds, boot),
                                   block + 1, boot)

\* the for loop over the state items, lines 376-389: the commands and the
\* block counter after the items from the i-th on, given both before them
RECURSIVE state_items_cmds(_, _, _, _, _, _)
state_items_cmds(state, state_items, i, zone_cmds, block, boot) ==
  IF i > Len(state_items) THEN [zone_cmds |-> zone_cmds, block |-> block]
  ELSE LET item == state_items[i]
           zone_codes == _get_zone_codes(get_zone_names(item))
           loop_items == get_loop_items(item)
           loop_cmds == _make_loop_cmds(zone_codes, block, loop_items)
       IN IF loop_cmds # <<>>
            THEN state_items_cmds(state, state_items, i + 1,
                                  zone_cmds \o block_cmds(state, loop_cmds, boot),
                                  block + 1, boot)
            ELSE state_items_cmds(state, state_items, i + 1, zone_cmds, block, boot)

\* the end of _make_zone_cmds with the save sent for an empty state too
end_zone_cmds_always_save(zone_cmds, block, boot) ==
  (IF ~boot THEN Append(zone_cmds, make_cmd_save) ELSE zone_cmds)
  \o (IF boot
        THEN <<make_cmd_set_colour(block, _get_no_zone_code, <<0, 0, 0>>),
               make_cmd_loop_block_end>>
        ELSE <<>>)

\* the end of _make_zone_cmds, lines 390-398
end_zone_cmds(zone_cmds, block, boot) ==
  (IF zone_cmds # <<>> /\ ~boot THEN Append(zone_cmds, make_cmd_save) ELSE zone_cmds)
  \o (IF boot
        THEN <<make_cmd_set_colour(block, _get_no_zone_code, <<0, 0, 0>>),
               make_cmd_loop_block_end>>
        ELSE <<>>)

_make_zone_cmds(th, state_name, boot) ==
  LET state == state_map[state_name]
      state_items == get_state_items(th, state_name)
      r == state_items_cmds(state, state_items, 1, <<>>, 1, boot)
  IN end_zone_cmds(r.zone_cmds, r.block, boot)

\* the orders a dict may hold the keys ks in
KeyOrders(ks) ==
  {o \in [1..Cardinality(ks) -> ks] : \A i, j \in DOMAIN o : i # j => o[i] # o[j]}

\* ------------------------------------------------ inputs of the compiler
Colour1 == <<15, 0, 0>>
Colour2 == <<0, 0, 15>>
\* colour lists of one and of two colours
ColourLists == {<<Colour1>>, <<Colour1, Colour2>>}
\* action types of a theme file: the three known ones and an unknown one
ActionTypes == {KW_ACTION_TYPE_FIXED, KW_ACTION_TYPE_BLINK, KW_ACTION_TYPE_MORPH, "pulse"}
ActionPool == {make_zone_action(t, c) : t \in ActionTypes, c \in ColourLists}
Loops == UNION {[1..n -> ActionPool] : n \in 0..MaxActions}
ZoneLists == {<<ZONE_ALIEN_HEAD>>, <<"SIDE_LEFT">>}
\* the states set_zone_actions is called on
ThemeStates == {STATE_BOOT}

\* state-items of a theme file: one without a "loop" entry, one with actions
FileItemNoLoop == (KW_ZONES :> <<"SIDE_LEFT">>)
FileItemFixed ==
  (KW_ZONES :> <<"SIDE_LEFT">>)
  @@ (KW_LOOP :> <<make_zone_action(KW_ACTION_TYPE_FIXED, <<Colour2>>)>>)
\* a state-item without a "zones" entry
FileItemNoZones ==
  (KW_LOOP :> <<make_zone_action(KW_ACTION_TYPE_FIXED, <<Colour1>>)>>)
\* a state-item that names a zone the controller does not have
FileItemUnknownZone ==
  (KW_ZONES :> <<"Left Keyboard", "SIDE_LEFT">>)
  @@ (KW_LOOP :> <<make_zone_action(KW_ACTION_TYPE_BLINK, <<Colour2>>)>>)
\* the theme files load is called on
FileThemes ==
  {(STATE_BOOT :> <<FileItemNoLoop>>),
   (STATE_BOOT :> <<FileItemNoLoop, FileItemFixed>>),
   (STATE_BOOT :> <<FileItemNoZones, FileItemUnknownZone>>)}

RECURSIVE SumLen(_)
SumLen(seqs) == IF seqs = <<>> THEN 0 ELSE Len(Head(seqs)) + SumLen(Tail(seqs))

\* the loops of the items of a state
LoopsOf(state_items) == [i \in DOMAIN state_items |-> get_loop_items(state_items[i])]

RECURSIVE NumItems(_, _)
NumItems(th, i) ==
  IF i > Len(state_order) THEN 0
  ELSE Len(get_state_items(th, state_order[i])) + NumItems(th, i + 1)

RECURSIVE NumActions(_, _)
NumActions(th, i) ==
  IF i > Len(state_order) THEN 0
  ELSE SumLen(LoopsOf(get_state_items(th, state_order[i]))) + NumActions(th, i + 1)

\* ------------------------------------------------------ theme file storage
\* os.path.splitext(LAST_THEME_FILE)[0]
LAST_THEME == ".last_theme"
\* os.path.expanduser("~/.config/alienfx")
ThemeDir == "~/.config/alienfx"
\* the value of _theme_dir while the attribute has not been assigned
Unset == "<unset>"

\* json.dump(self.theme, tfile): the members of the JSON object written, a
\* key and a value each, the states in dict order (the place of "speed"
\* among them is not kept by the model: it is written last)
json_dump(th, states) ==
  [valid |-> TRUE,
   members |-> [i \in 1..Len(states) |-> <<states[i], th[states[i]]>>]
               \o (IF KW_SPEED \in DOMAIN th
                     THEN << <<KW_SPEED, th[KW_SPEED]>> >>
                     ELSE <<>>)]

\* a file json.load cannot parse
NotJson == [valid |-> FALSE, members |-> <<>>]

\* json.load(tfile), the dict: a key read twice keeps its last value
json_load(members) ==
  [k \in {members[i][1] : i \in DOMAIN members} |->
     members[CHOOSE i \in DOMAIN members :
               /\ members[i][1] = k
               /\ \A j \in DOMAIN members : j > i => members[j][1] # k][2]]

\* json.load(tfile), the order of the dict's state keys
RECURSIVE json_load_states(_)
json_load_states(members) ==
  IF members = <<>> THEN <<>>
  ELSE LET n == Len(members)
           before == json_load_states(SubSeq(members, 1, n - 1))
           k == members[n][1]
       IN IF k = KW_SPEED \/ \E i \in DOMAIN before : before[i] = k
            THEN before
            ELSE Append(before, k)

\* the theme of data/themes/default.json
DefaultTheme ==
  (STATE_BOOT :> << (KW_ZONES :> <<ZONE_ALIEN_HEAD, "SIDE_LEFT">>)
                    @@ (KW_LOOP :> <<make_zone_action(KW_ACTION_TYPE_FIXED,
                                                      <<Colour1>>)>>) >>)
  @@ (KW_SPEED :> DEFAULT_SPEED)
\* what set_default_theme finds at the package's data/themes/default.json:
\* the default theme, or no file
DefaultFiles == {json_dump(DefaultTheme, <<STATE_BOOT>>), NotJson}

\* _load_from_file, lines 207-229, on the file with this stem, or on a path
\* with no file (found = FALSE): the theme, the order of its states and the
\* theme name after it, and whether an error was logged
_load_from_file(found, file, stem) ==
  IF found /\ file.valid
    THEN [theme |-> json_load(file.members),
          theme_states |-> json_load_states(file.members),
          theme_name |-> IF stem # LAST_THEME THEN stem ELSE "",
          logged |-> FALSE]
    ELSE [theme |-> EmptyTheme, theme_states |-> <<>>, theme_name |-> "",
          logged |-> TRUE]

\* what the file system does on one open(path, "w") and json.dump
SaveOutcomes == {"written", "ioerror"}

\* a _save_to_file that names the theme after every file it writes
_save_to_file_names_every_stem(dir, th, states, name, stem, outcome) ==
  IF outcome = "written"
    THEN [files |-> [f \in DOMAIN dir \cup {stem} |->
                       IF f = stem THEN json_dump(th, states) ELSE dir[f]],
          theme_name |-> stem,
          logged |-> FALSE]
    ELSE [files |-> dir, theme_name |-> name, logged |-> TRUE]

\* _save_to_file, lines 319-329: the directory and the theme name after it,
\* and whether an error was logged
_save_to_file(dir, th, states, name, stem, outcome) ==
  IF outcome = "written"
    THEN [files |-> [f \in DOMAIN dir \cup {stem} |->
                       IF f = stem THEN json_dump(th, states) ELSE dir[f]],
          theme_name |-> IF stem # LAST_THEME THEN stem ELSE name,
          logged |-> FALSE]
    ELSE [files |-> dir, theme_name |-> name, logged |-> TRUE]

\* the theme names load and save are called with
ThemeNames == {"a", "b", "c", LAST_THEME}
\* a theme directory without files
EmptyDir == [f \in {} |-> NotJson]
\* a theme directory that holds the three theme files
FilesDir ==
  ("a" :> json_dump((STATE_BOOT :> <<FileItemNoLoop>>), <<STATE_BOOT>>))
  @@ ("b" :> json_dump((STATE_BOOT :> <<FileItemNoLoop, FileItemFixed>>),
                       <<STATE_BOOT>>))
  @@ ("c" :> json_dump((STATE_BOOT :> <<FileItemNoZones, FileItemUnknownZone>>),
                       <<STATE_BOOT>>))

\* AlienFXThemeFile.__init__, lines 73-86, with XDG_CONFIG_HOME not in the
\* environment (dir = ThemeDir) or in it (os.environ(...) raises TypeError,
\* which is caught and logged, and _theme_dir is never assigned)
ThemeFileInit(dir) ==
  /\ _theme_dir = dir
  /\ theme = EmptyTheme
  /\ theme_states = <<>>
  /\ theme_name = ""
  /\ file_call = "__init__"
  /\ file_arg = None
  /\ file_result = "None"
  /\ file_logged = (dir = Unset)

\* ------------------------------------------- theme file and compiler calls
\* a driver and a controller after construction, set_theme not called yet
\* no set_action_* and no get_zone_actions call made yet
NotEditing ==
  /\ edit_action = EmptyTheme
  /\ edit_was = EmptyTheme
  /\ edit_arg = None
  /\ edit_call = "none"
  /\ zone_asked = <<>>
  /\ zone_actions = <<>>

NotRunning ==
  /\ NotEditing
  /\ control_taken = FALSE
  /\ exc = "none"
  /\ result = "none"
  /\ wlog = <<>>
  /\ wfail = 0
  /\ wafter = FALSE
  /\ ready = FALSE
  /\ errcount = 0
  /\ polls = 0
  /\ resps = <<>>
  /\ zone_arg = <<>>
  /\ zone_code = 0
  /\ zone_pkt = <<0, 0, 0>>
  /\ zone_str = <<>>
  /\ state_code = 0
  /\ state_str = ""
  /\ sidx = 0
  /\ cmds = <<>>
  /\ cmds_boot = <<>>
  /\ queue = <<>>

\* AlienFXThemeFile.__init__, and a controller on which set_theme has not run
InitCompile ==
  /\ ThemeFileInit(ThemeDir)
  /\ files = FilesDir
  /\ pc = "theme"
  /\ NotRunning

\* themefile.set_zone_actions(state, zones, actions)
SetZoneActions ==
  /\ pc = "theme"
  /\ NumItems(theme, 1) < MaxItems
  /\ \E state \in ThemeStates, zones \in ZoneLists, actions \in Loops :
       /\ NumActions(theme, 1) + Len(actions) <= MaxActions
       /\ theme' = set_zone_actions(theme, state, zones, actions)
       /\ theme_states' = IF state \notin DOMAIN theme
                            THEN Append(theme_states, state)
                            ELSE theme_states
  /\ file_call' = "set_zone_actions"
  /\ file_arg' = None
  /\ file_result' = "None"
  /\ file_logged' = FALSE
  /\ UNCHANGED <<pc, driverVars, pollVars, sidx, cmds, cmds_boot, queue, zoneVars,
                 stateVars, theme_name, _theme_dir, files, editVars>>

\* themefile.load(theme_name), lines 331-335: os.path.join raises
\* AttributeError while _theme_dir is not set; else the theme is what the
\* file holds, or the empty dict when the file cannot be read or parsed
Load ==
  /\ pc = "theme"
  /\ file_call' = "load"
  /\ \E name \in ThemeNames :
       /\ file_arg' = name
       /\ IF _theme_dir = Unset
            THEN /\ file_result' = "AttributeError"
                 /\ file_logged' = FALSE
                 /\ UNCHANGED <<theme, theme_states, theme_name>>
            ELSE LET r == _load_from_file(name \in DOMAIN files,
                                          IF name \in DOMAIN files
                                            THEN files[name] ELSE NotJson,
                                          name)
                 IN /\ theme' = r.theme
                    /\ theme_states' = r.theme_states
                    /\ theme_name' = r.theme_name
                    /\ file_logged' = r.logged
                    /\ file_result' = "None"
  /\ UNCHANGED <<pc, driverVars, pollVars, sidx, cmds, cmds_boot, queue, zoneVars,
                 stateVars, _theme_dir, files, editVars>>

\* controller._make_zone_cmds(themefile, state_name): the normal pass
MakeZoneCmds ==
  /\ pc = "theme"
  /\ \E i \in DOMAIN state_order :
       /\ sidx' = i
       /\ cmds' = _make_zone_cmds(theme, state_order[i], FALSE)
  /\ pc' = "compiled"
  /\ UNCHANGED <<theme, theme_states, zoneVars, stateVars, fileVars, driverVars,
                 pollVars, cmds_boot, queue, editVars>>

\* controller._make_zone_cmds(themefile, STATE_BOOT, boot=True): the boot replay
MakeZoneCmdsBoot ==
  /\ pc = "theme"
  /\ \E i \in DOMAIN state_order :
       /\ state_order[i] = STATE_BOOT
       /\ sidx' = i
       /\ cmds_boot' = _make_zone_cmds(theme, state_order[i], TRUE)
  /\ pc' = "compiled_boot"
  /\ UNCHANGED <<theme, theme_states, zoneVars, stateVars, fileVars, driverVars,
                 pollVars, cmds, queue, editVars>>

NextCompile == SetZoneActions \/ Load \/ MakeZoneCmds \/ MakeZoneCmdsBoot

SpecCompile == InitCompile /\ [][NextCompile]_vars

\* the states and the zones get_zone_actions is asked about: a state and
\* zones that themes hold, and a state and a zone that no theme holds
AskedStates == {STATE_BOOT, STATE_AC_ON}
AskedZones == {"SIDE_LEFT", "Left Keyboard", ZONE_POWER_BUTTON}

\* themefile.get_zone_actions(state, zone)
GetZoneActions ==
  /\ pc = "theme"
  /\ \E state \in AskedStates, zone \in AskedZones :
       /\ zone_asked' = <<state, zone>>
       /\ zone_actions' = get_zone_actions(theme, state, zone)
  /\ pc' = "get_zone_actions"
  /\ file_call' = "get_zone_actions"
  /\ file_arg' = None
  /\ file_result' = "None"
  /\ file_logged' = FALSE
  /\ UNCHANGED <<theme, theme_states, driverVars, pollVars, sidx, cmds, cmds_boot,
                 queue, zoneVars, stateVars, theme_name, _theme_dir, files,
                 edit_action, edit_was, edit_arg, edit_call>>

NextZoneActions == SetZoneActions \/ Load \/ GetZoneActions

\* themes built by load and set_zone_actions, then asked for a zone's actions
SpecZoneActions == InitCompile /\ [][NextZoneActions]_vars

\* ----------------------------------------------- theme file storage calls
\* a theme file object constructed, with XDG_CONFIG_HOME in the environment
\* or not, over a theme directory that is empty or holds a.json and b.json
InitThemeFile ==
  /\ \E dir \in {ThemeDir, Unset} : ThemeFileInit(dir)
  /\ files \in {EmptyDir,
                 [f \in {"a", "b"} |-> IF f = "a" THEN FilesDir["b"] ELSE NotJson]}
  /\ pc = "theme"
  /\ NotRunning

\* the speeds set_speed is called with
SpeedValues == {100}

\* themefile.set_speed(speed)
SetSpeed ==
  /\ pc = "theme"
  /\ \E speed \in SpeedValues :
       theme' = [k \in DOMAIN theme \cup {KW_SPEED} |->
                   IF k = KW_SPEED THEN speed ELSE theme[k]]
  /\ file_call' = "set_speed"
  /\ file_arg' = None
  /\ file_result' = "None"
  /\ file_logged' = FALSE
  /\ UNCHANGED <<theme_states, pc, driverVars, pollVars, sidx, cmds, cmds_boot,
                 queue, zoneVars, stateVars, theme_name, _theme_dir, files, editVars>>

\* themefile.save(theme_name) and themefile.save(), lines 337-348: without a
\* name it returns at line 344 when no theme is named, and else reaches
\* line 347 with theme_file never assigned; os.path.join's first argument,
\* self._theme_dir, is evaluated before theme_file
Save ==
  /\ pc = "theme"
  /\ file_call' = "save"
  /\ \/ \E name \in ThemeNames, outcome \in SaveOutcomes :
          /\ file_arg' = name
          /\ IF _theme_dir = Unset
               THEN /\ file_result' = "AttributeError"
                    /\ file_logged' = FALSE
                    /\ UNCHANGED <<theme_name, files>>
               ELSE LET r == _save_to_file(files, theme, theme_states, theme_name,
                                           name, outcome)
                    IN /\ files' = r.files
                       /\ theme_name' = r.theme_name
                       /\ file_logged' = r.logged
                       /\ file_result' = "None"
     \/ /\ file_arg' = None
        /\ file_result' = IF theme_name = "" THEN "None"
                           ELSE IF _theme_dir = Unset THEN "AttributeError"
                           ELSE "UnboundLocalError"
        /\ file_logged' = FALSE
        /\ UNCHANGED <<theme_name, files>>
  /\ UNCHANGED <<theme, theme_states, pc, driverVars, pollVars, sidx, cmds,
                 cmds_boot, queue, zoneVars, stateVars, _theme_dir, editVars>>

\* themefile.applied(), lines 183-187
Applied ==
  /\ pc = "theme"
  /\ file_call' = "applied"
  /\ file_arg' = None
  /\ \E outcome \in SaveOutcomes :
       IF _theme_dir = Unset
         THEN /\ file_result' = "AttributeError"
              /\ file_logged' = FALSE
              /\ UNCHANGED <<theme_name, files>>
         ELSE LET r == _save_to_file(files, theme, theme_states, theme_name,
                                     LAST_THEME, outcome)
              IN /\ files' = r.files
                 /\ theme_name' = r.theme_name
                 /\ file_logged' = r.logged
                 /\ file_result' = "None"
  /\ UNCHANGED <<theme, theme_states, pc, driverVars, pollVars, sidx, cmds,
                 cmds_boot, queue, zoneVars, stateVars, _theme_dir, editVars>>

\* themefile.set_default_theme(), lines 200-205
SetDefaultTheme ==
  /\ pc = "theme"
  /\ file_call' = "set_default_theme"
  /\ file_arg' = None
  /\ file_result' = "None"
  /\ \E file \in DefaultFiles :
       LET r == _load_from_file(TRUE, file, "default")
       IN /\ theme' = r.theme
          /\ theme_states' = r.theme_states
          /\ theme_name' = ""
          /\ file_logged' = r.logged
  /\ UNCHANGED <<pc, driverVars, pollVars, sidx, cmds, cmds_boot, queue, zoneVars,
                 stateVars, _theme_dir, files, editVars>>

\* themefile.load_last_theme(), lines 189-198
LoadLastTheme ==
  /\ pc = "theme"
  /\ file_call' = "load_last_theme"
  /\ file_arg' = None
  /\ IF _theme_dir = Unset
       THEN /\ file_result' = "AttributeError"
            /\ file_logged' = FALSE
            /\ UNCHANGED <<theme, theme_states, theme_name>>
       ELSE IF LAST_THEME \in DOMAIN files
         THEN LET r == _load_from_file(TRUE, files[LAST_THEME], LAST_THEME)
              IN /\ theme' = r.theme
                 /\ theme_states' = r.theme_states
                 /\ theme_name' = r.theme_name
                 /\ file_logged' = r.logged
                 /\ file_result' = "True"
         ELSE \E file \in DefaultFiles :
                LET r == _load_from_file(TRUE, file, "default")
                IN /\ theme' = r.theme
                   /\ theme_states' = r.theme_states
                   /\ theme_name' = ""
                   /\ file_logged' = r.logged
                   /\ file_result' = "False"
  /\ UNCHANGED <<pc, driverVars, pollVars, sidx, cmds, cmds_boot, queue, zoneVars,
                 stateVars, _theme_dir, files, editVars>>

\* what the file system does on one os.remove of an existing file
RemoveOutcomes == {"removed", "oserror"}

\* themefile.delete_theme_from_disk(), lines 88-105: it returns None at line
\* 94 when no theme is named or the name is the stem of LAST_THEME_FILE;
\* else it removes the file of the current theme when that file exists,
\* sets the default theme and returns True; an error of os.remove is logged
\* and False returned, as when the file does not exist
DeleteThemeFromDisk ==
  /\ pc = "theme"
  /\ file_call' = "delete_theme_from_disk"
  /\ file_arg' = None
  /\ IF theme_name = "" \/ theme_name = LAST_THEME
       THEN /\ file_result' = "None"
            /\ file_logged' = FALSE
            /\ UNCHANGED <<theme, theme_states, theme_name, files>>
       ELSE IF _theme_dir = Unset
         THEN /\ file_result' = "AttributeError"
              /\ file_logged' = FALSE
              /\ UNCHANGED <<theme, theme_states, theme_name, files>>
         ELSE IF theme_name \in DOMAIN files
           THEN \E outcome \in RemoveOutcomes :
                  IF outcome = "removed"
                    THEN /\ files' = [f \in DOMAIN files \ {theme_name} |-> files[f]]
                         /\ \E file \in DefaultFiles :
                              LET r == _load_from_file(TRUE, file, "default")
                              IN /\ theme' = r.theme
                                 /\ theme_states' = r.theme_states
                                 /\ theme_name' = ""
                                 /\ file_logged' = r.logged
                         /\ file_result' = "True"
                    ELSE /\ file_result' = "False"
                         /\ file_logged' = TRUE
                         /\ UNCHANGED <<theme, theme_states, theme_name, files>>
           ELSE /\ file_result' = "False"
                /\ file_logged' = FALSE
                /\ UNCHANGED <<theme, theme_states, theme_name, files>>
  /\ UNCHANGED <<pc, driverVars, pollVars, sidx, cmds, cmds_boot, queue, zoneVars,
                 stateVars, _theme_dir, editVars>>

NextThemeFile ==
  \/ Load
  \/ SetSpeed
  \/ Save
  \/ Applied
  \/ SetDefaultTheme
  \/ LoadLastTheme
  \/ DeleteThemeFromDisk

SpecThemeFile == InitThemeFile /\ [][NextThemeFile]_vars

\* ------------------------------------------------ theme file action edits
\* the action dicts set_action_type and set_action_colours are called on:
\* with no type, a known or an unknown type, and no, one or two colours
EditActions ==
  {make_zone_action(t, c) : t \in ActionTypes, c \in ColourLists}
  \cup {(KW_ACTION_TYPE :> t) : t \in ActionTypes}
  \cup {(KW_ACTION_COLOURS :> c) : c \in ColourLists}
  \cup {EmptyTheme}
\* the types set_action_type is called with
EditTypes == ActionTypes \cup {None}
\* the colour lists set_action_colours is called with
EditColours ==
  {<<>>, <<Colour2>>, <<Colour2, Colour1>>, <<Colour1, Colour2, Colour1>>}

\* a theme file object constructed, no action edited yet
InitAction ==
  /\ ThemeFileInit(ThemeDir)
  /\ files = EmptyDir
  /\ pc = "theme"
  /\ NotRunning

\* AlienFXThemeFile.set_action_type(action, action_type), on an action of the
\* pool or on the action the last call left
SetActionType ==
  /\ pc = "theme"
  /\ \E a \in EditActions \cup {edit_action}, action_type \in EditTypes :
       /\ edit_was' = a
       /\ edit_arg' = action_type
       /\ edit_action' = set_action_type(a, action_type)
  /\ edit_call' = "set_action_type"
  /\ UNCHANGED <<theme, theme_states, pc, driverVars, pollVars, sidx, cmds, cmds_boot,
                 queue, zoneVars, stateVars, fileVars, zone_asked, zone_actions>>

\* AlienFXThemeFile.set_action_colours(action, action_colours)
SetActionColours ==
  /\ pc = "theme"
  /\ \E a \in EditActions \cup {edit_action}, action_colours \in EditColours :
       /\ edit_was' = a
       /\ edit_arg' = action_colours
       /\ edit_action' = set_action_colours(a, action_colours)
  /\ edit_call' = "set_action_colours"
  /\ UNCHANGED <<theme, theme_states, pc, driverVars, pollVars, sidx, cmds, cmds_boot,
                 queue, zoneVars, stateVars, fileVars, zone_asked, zone_actions>>

NextAction == SetActionType \/ SetActionColours

SpecAction == InitAction /\ [][NextAction]_vars

\* ------------------------------------------------------------- the driver
\* what the sysfs interface does on one write_packet: the write reaches the
\* control file ("ok"), the ACPI path is gone, the control file is missing,
\* or open/write raises IOError
WriteOutcomes == {"ok", "nopath", "nofile", "ioerror"}

\* what the sysfs interface does on one read_packet: a packet of a ready or
\* of a busy controller is read, nothing is read, the ACPI path is gone, the
\* control file is missing, or open/read raises IOError
ReadOutcomes == {"ready", "busy", "empty", "nopath", "nofile", "ioerror"}

\* write_packet: whether pkt reaches the control file; it returns None and
\* raises nothing in every case
write_packet(taken, outcome) == taken /\ outcome = "ok"

\* what the sysfs interface does on a read_packet that gets fewer bytes than
\* it asked for: one byte, of a ready or of a busy controller
ShortReadOutcomes == {"short_ready", "short_busy"}

\* a status reply of the controller: PACKET_LENGTH bytes, the status in the
\* first (the callers look at no other byte)
status_packet(status) == <<status>> \o [i \in 1..(PACKET_LENGTH - 1) |-> 0]

\* read_packet: the list of the bytes f.read(PACKET_LENGTH) returned, or
\* None; <<>> stands for None
read_packet(taken, outcome) ==
  IF ~taken THEN <<>>
  ELSE CASE outcome = "ready" -> status_packet(STATUS_READY)
         [] outcome = "busy" -> status_packet(STATUS_BUSY)
         [] outcome = "short_ready" -> <<STATUS_READY>>
         [] outcome = "short_busy" -> <<STATUS_BUSY>>
         [] OTHER -> <<>>

\* acquire with the flag set before the path is looked at
acquire_flag_first(taken, path_exists) ==
  [control_taken |-> TRUE, raises |-> ~taken /\ ~path_exists]

\* an acquire that checks the interface path on every call
acquire_checks_path_always(taken, path_exists) ==
  [control_taken |-> path_exists, raises |-> ~path_exists]

\* acquire: the flag afterwards, and whether IOError is raised
acquire(taken, path_exists) ==
  IF taken THEN [control_taken |-> TRUE, raises |-> FALSE]
  ELSE IF ~path_exists THEN [control_taken |-> FALSE, raises |-> TRUE]
  ELSE [control_taken |-> TRUE, raises |-> FALSE]

\* a release that flips the flag
release_toggle(taken) == ~taken

\* release: the flag afterwards
release(taken) == IF ~taken THEN taken ELSE FALSE

\* the bookkeeping of one write_packet(pkt) call
Write(pkt, outcome) ==
  LET ok == write_packet(control_taken, outcome)
  IN /\ wlog' = Append(wlog, pkt)
     /\ wfail' = IF ~ok /\ wfail = 0 THEN Len(wlog) + 1 ELSE wfail
     /\ wafter' = (wafter \/ (ok /\ wfail # 0))

\* ------------------------------------------------------------- set_theme
max_retries == 10
\* the number of soft failures after which the controller is assumed ready
assume_ready_after == 3

\* the most recent entries of a log of read_packet's return values: as many
\* as the soft failures that make the poll assume the controller ready
Recent(log) ==
  IF Len(log) <= assume_ready_after THEN log
  ELSE SubSeq(log, Len(log) - assume_ready_after + 1, Len(log))

\* the themes set_theme is called with
ItemA == (KW_ZONES :> <<"SIDE_LEFT">>)
         @@ (KW_LOOP :> <<make_zone_action(KW_ACTION_TYPE_FIXED, <<Colour1>>)>>)
ItemB == (KW_ZONES :> <<ZONE_ALIEN_HEAD>>)
         @@ (KW_LOOP :> <<make_zone_action(KW_ACTION_TYPE_MORPH, <<Colour1>>),
                          make_zone_action(KW_ACTION_TYPE_BLINK, <<Colour2>>)>>)
ItemC == (KW_ZONES :> <<"SIDE_LEFT", ZONE_ALIEN_HEAD>>)
         @@ (KW_LOOP :> <<make_zone_action(KW_ACTION_TYPE_MORPH, <<Colour1, Colour2>>)>>)
ThemeSpeed == 100
RunThemes ==
  { [k \in ks |-> CASE k = STATE_BOOT -> <<ItemA, ItemB>>
                    [] k = STATE_AC_ON -> <<ItemC>>
                    [] k = KW_SPEED -> ThemeSpeed] :
      ks \in SUBSET {STATE_BOOT, STATE_AC_ON, KW_SPEED} }

\* a theme file loaded, a controller constructed, set_theme about to be called
Init ==
  /\ theme \in RunThemes
  /\ theme_states \in KeyOrders(DOMAIN theme \ {KW_SPEED})
  /\ theme_name = ""
  /\ _theme_dir = ThemeDir
  /\ files = EmptyDir
  /\ file_call = "__init__"
  /\ file_arg = None
  /\ file_result = "None"
  /\ file_logged = FALSE
  /\ pc = "acquire"
  /\ NotRunning

\* the positions inside the try block, after acquire
InTry == {"ping", "reset", "poll", "compile", "send", "speed", "boot", "execute"}

\* self._driver.acquire(), line 411
Acquire ==
  /\ pc = "acquire"
  /\ \E path_exists \in BOOLEAN :
       LET r == acquire(control_taken, path_exists)
       IN /\ control_taken' = r.control_taken
          /\ exc' = IF r.raises THEN "IOError" ELSE exc
          /\ pc' = IF r.raises THEN "finally" ELSE "ping"
  /\ UNCHANGED <<theme, theme_states, zoneVars, stateVars, fileVars,
                 result, wlog, wfail, wafter, pollVars, sidx, cmds,
                 cmds_boot, queue, editVars>>

\* a _ping that lets a read that returned nothing end set_theme
PingReadFatal ==
  /\ pc = "ping"
  /\ \E w \in WriteOutcomes, r \in ReadOutcomes :
       /\ Write(make_cmd_get_status, w)
       /\ resps' = Recent(Append(resps, read_packet(control_taken, r)))
       /\ exc' = IF read_packet(control_taken, r) = <<>> THEN "IOError" ELSE exc
       /\ pc' = IF read_packet(control_taken, r) = <<>> THEN "finally" ELSE "reset"
  /\ UNCHANGED <<theme, theme_states, zoneVars, stateVars, fileVars, control_taken,
                 result, ready,
                 errcount, polls, sidx, cmds, cmds_boot, queue, editVars>>

\* self._ping(), line 416
Ping ==
  /\ pc = "ping"
  /\ \E w \in WriteOutcomes, r \in ReadOutcomes :
       \* the packet read is dropped
       /\ Write(make_cmd_get_status, w)
       /\ resps' = Recent(Append(resps, read_packet(control_taken, r)))
  /\ pc' = "reset"
  /\ UNCHANGED <<theme, theme_states, zoneVars, stateVars, fileVars, control_taken, exc,
                 result, ready,
                 errcount, polls, sidx, cmds, cmds_boot, queue, editVars>>

\* self._reset("all-lights-on"), line 417, and the entry of
\* _wait_controller_ready, lines 276-278
Reset ==
  /\ pc = "reset"
  /\ \E w \in WriteOutcomes :
       Write(make_cmd_reset(_get_reset_code("all-lights-on")), w)
  /\ ready' = FALSE
  /\ errcount' = 0
  /\ polls' = 0
  /\ pc' = "poll"
  /\ UNCHANGED <<theme, theme_states, zoneVars, stateVars, fileVars, control_taken, exc,
                 result, resps,
                 sidx, cmds, cmds_boot, queue, editVars>>

\* a poll that counts every attempt, the answered ones too
PollStepCountsEvery ==
  /\ pc = "poll"
  /\ ~ready /\ errcount < max_retries
  /\ polls < MaxPolls
  /\ polls' = polls + 1
  /\ \E w \in WriteOutcomes, r \in ReadOutcomes :
       LET resp == read_packet(control_taken, r)
           errs == errcount + 1
           rdy == IF resp # <<>> THEN resp[1] = STATUS_READY
                  ELSE errs >= assume_ready_after
           again == ~rdy /\ errs < max_retries
       IN /\ Write(make_cmd_get_status, w)
          /\ resps' = Recent(Append(resps, resp))
          /\ ready' = rdy
          /\ errcount' = errs
          /\ pc' = IF again THEN "poll" ELSE "compile"
          /\ sidx' = IF again THEN sidx ELSE 1
  /\ UNCHANGED <<theme, theme_states, zoneVars, stateVars, fileVars, control_taken, exc,
                 result, cmds,
                 cmds_boot, queue, editVars>>

\* one turn of the while loop of _wait_controller_ready, lines 280-299, and,
\* when the loop ends with it, the return to set_theme and its for loop
PollStepOn(outcomes) ==
  /\ pc = "poll"
  /\ ~ready /\ errcount < max_retries
  /\ polls < MaxPolls
  /\ polls' = polls + 1
  /\ \E w \in WriteOutcomes, r \in outcomes :
       LET resp == read_packet(control_taken, r)
           errs == IF resp # <<>> THEN errcount ELSE errcount + 1
           rdy == IF resp # <<>> THEN resp[1] = STATUS_READY
                  ELSE errs >= assume_ready_after
           again == ~rdy /\ errs < max_retries
       IN /\ Write(make_cmd_get_status, w)
          /\ resps' = Recent(Append(resps, resp))
          /\ ready' = rdy
          /\ errcount' = errs
          /\ pc' = IF again THEN "poll" ELSE "compile"
          /\ sidx' = IF again THEN sidx ELSE 1
  /\ UNCHANGED <<theme, theme_states, zoneVars, stateVars, fileVars, control_taken, exc,
                 result,
                 cmds, cmds_boot, queue, editVars>>

\* a turn of the poll in a run of set_theme
PollStep == PollStepOn(ReadOutcomes)

\* a for loop whose compiler call takes the compiled state out of the theme
\* and appends to the list of the call before
CompileStateConsuming ==
  /\ pc = "compile"
  /\ IF sidx <= Len(state_order)
       THEN /\ cmds' = cmds \o _make_zone_cmds(theme, state_order[sidx], FALSE)
            /\ cmds_boot' = IF state_order[sidx] = STATE_BOOT
                              THEN _make_zone_cmds(theme, state_order[sidx], TRUE)
                              ELSE cmds_boot
            /\ queue' = cmds'
            /\ theme' = [k \in DOMAIN theme \ {state_order[sidx]} |-> theme[k]]
            /\ pc' = "send"
       ELSE /\ pc' = "speed"
            /\ UNCHANGED <<theme, cmds, cmds_boot, queue>>
  /\ UNCHANGED <<theme_states, zoneVars, stateVars, fileVars, driverVars, pollVars, sidx, editVars>>

\* a for loop over the states of the theme, in the theme's order
CompileStateThemeOrder ==
  /\ pc = "compile"
  /\ IF sidx <= Len(theme_states)
       THEN /\ cmds' = _make_zone_cmds(theme, theme_states[sidx], FALSE)
            /\ cmds_boot' = IF theme_states[sidx] = STATE_BOOT
                              THEN _make_zone_cmds(theme, theme_states[sidx], TRUE)
                              ELSE cmds_boot
            /\ queue' = cmds'
            /\ pc' = "send"
       ELSE /\ pc' = "speed"
            /\ UNCHANGED <<cmds, cmds_boot, queue>>
  /\ UNCHANGED <<theme, theme_states, zoneVars, stateVars, fileVars, driverVars,
                 pollVars, sidx, editVars>>

\* the head of the for loop over state_map, lines 420-427: the state's
\* commands are compiled; after the last state, lines 429-430 are next
CompileState ==
  /\ pc = "compile"
  /\ IF sidx <= Len(state_order)
       THEN /\ cmds' = _make_zone_cmds(theme, state_order[sidx], FALSE)
            /\ cmds_boot' = IF state_order[sidx] = STATE_BOOT
                              THEN _make_zone_cmds(theme, state_order[sidx], TRUE)
                              ELSE cmds_boot
            /\ queue' = cmds'
            /\ pc' = "send"
       ELSE /\ pc' = "speed"
            /\ UNCHANGED <<cmds, cmds_boot, queue>>
  /\ UNCHANGED <<theme, theme_states, zoneVars, stateVars, fileVars, driverVars,
                 pollVars, sidx, editVars>>

\* a _send_cmds that releases the driver once its list is sent
SendCmdsReleasing ==
  /\ pc = "send"
  /\ IF queue # <<>>
       THEN /\ \E w \in WriteOutcomes : Write(Head(queue), w)
            /\ queue' = Tail(queue)
            /\ UNCHANGED <<pc, sidx, control_taken>>
       ELSE /\ sidx' = sidx + 1
            /\ pc' = "compile"
            /\ control_taken' = release(control_taken)
            /\ UNCHANGED <<wlog, wfail, wafter, queue>>
  /\ UNCHANGED <<theme, theme_states, zoneVars, stateVars, fileVars, exc, result,
                 pollVars, cmds, cmds_boot, editVars>>

\* self._send_cmds(cmds), line 428: one command written, or the end of the
\* list reached and the next state taken
SendCmds ==
  /\ pc = "send"
  /\ IF queue # <<>>
       THEN /\ \E w \in WriteOutcomes : Write(Head(queue), w)
            /\ queue' = Tail(queue)
            /\ UNCHANGED <<pc, sidx>>
       ELSE /\ sidx' = sidx + 1
            /\ pc' = "compile"
            /\ UNCHANGED <<wlog, wfail, wafter, queue>>
  /\ UNCHANGED <<theme, theme_states, zoneVars, stateVars, fileVars, control_taken, exc,
                 result,
                 pollVars, cmds, cmds_boot, editVars>>

\* a set_theme that goes on to the boot replay without the set-speed packet
SendSpeedSkipped ==
  /\ pc = "speed"
  /\ queue' = cmds_boot
  /\ pc' = "boot"
  /\ UNCHANGED <<theme, theme_states, zoneVars, stateVars, fileVars, driverVars,
                 pollVars, sidx,
                 cmds, cmds_boot, editVars>>

\* the set-speed packet, lines 429-430, then line 432 is next
SendSpeed ==
  /\ pc = "speed"
  /\ \E w \in WriteOutcomes : Write(make_cmd_set_speed(get_speed(theme)), w)
  /\ queue' = cmds_boot
  /\ pc' = "boot"
  /\ UNCHANGED <<theme, theme_states, zoneVars, stateVars, fileVars, control_taken, exc,
                 result,
                 pollVars, sidx, cmds, cmds_boot, editVars>>

\* a _send_cmds that sends a boot-replay command again when its write did
\* not reach the control file
SendBootRetrying ==
  /\ pc = "boot"
  /\ IF queue # <<>>
       THEN /\ \E w \in WriteOutcomes :
                 /\ Write(Head(queue), w)
                 /\ queue' = IF write_packet(control_taken, w)
                               THEN Tail(queue) ELSE queue
            /\ UNCHANGED pc
       ELSE /\ pc' = "execute"
            /\ UNCHANGED <<wlog, wfail, wafter, queue>>
  /\ UNCHANGED <<theme, theme_states, zoneVars, stateVars, fileVars, control_taken,
                 exc, result, pollVars, sidx, cmds, cmds_boot, editVars>>

\* self._send_cmds(cmds_boot), line 432: one command written, or the end of
\* the list reached
SendBoot ==
  /\ pc = "boot"
  /\ IF queue # <<>>
       THEN /\ \E w \in WriteOutcomes : Write(Head(queue), w)
            /\ queue' = Tail(queue)
            /\ UNCHANGED pc
       ELSE /\ pc' = "execute"
            /\ UNCHANGED <<wlog, wfail, wafter, queue>>
  /\ UNCHANGED <<theme, theme_states, zoneVars, stateVars, fileVars, control_taken, exc,
                 result,
                 pollVars, sidx, cmds, cmds_boot, editVars>>

\* the transmit/execute packet, lines 433-434; the try block ends
Execute ==
  /\ pc = "execute"
  /\ \E w \in WriteOutcomes : Write(make_cmd_transmit_execute, w)
  /\ pc' = "finally"
  /\ UNCHANGED <<theme, theme_states, zoneVars, stateVars, fileVars,
                 control_taken, exc, result, pollVars, sidx, cmds,
                 cmds_boot, queue, editVars>>

\* an exception raised inside the try block by a callee that is not the
\* driver (the driver's write_packet and read_packet catch their own): the
\* except clause logs it and raises it again, lines 435-437
RaiseInTry ==
  /\ pc \in InTry
  /\ exc' = "Exception"
  /\ pc' = "finally"
  /\ UNCHANGED <<theme, theme_states, zoneVars, stateVars, fileVars,
                 control_taken, result, wlog, wfail, wafter, pollVars,
                 sidx, cmds, cmds_boot, queue, editVars>>

\* a finally clause that releases only after a try block that raised nothing
FinallySkipOnRaise ==
  /\ pc = "finally"
  /\ control_taken' = IF exc = "none" THEN release(control_taken) ELSE control_taken
  /\ result' = IF exc = "none" THEN "returned" ELSE "raised"
  /\ pc' = "done"
  /\ UNCHANGED <<theme, theme_states, zoneVars, stateVars, fileVars, exc, wlog, wfail,
                 wafter, pollVars, sidx, cmds,
                 cmds_boot, queue, editVars>>

\* the finally clause, lines 438-439, and the end of set_theme: it returns,
\* or the exception goes on to the caller
Finally ==
  /\ pc = "finally"
  /\ control_taken' = release(control_taken)
  /\ result' = IF exc = "none" THEN "returned" ELSE "raised"
  /\ pc' = "done"
  /\ UNCHANGED <<theme, theme_states, zoneVars, stateVars, fileVars, exc, wlog, wfail,
                 wafter, pollVars, sidx, cmds,
                 cmds_boot, queue, editVars>>

Next ==
  \/ Acquire
  \/ Ping
  \/ Reset
  \/ PollStep
  \/ CompileState
  \/ SendCmds
  \/ SendSpeed
  \/ SendBoot
  \/ Execute
  \/ RaiseInTry
  \/ Finally

Spec == Init /\ [][Next]_vars

\* ------------------------------------------------ the readiness poll alone
\* a controller constructed, its driver acquired or not, and
\* _wait_controller_ready about to be called
InitPoll ==
  /\ ThemeFileInit(ThemeDir)
  /\ files = EmptyDir
  /\ pc = "poll"
  /\ control_taken \in BOOLEAN
  /\ exc = "none" /\ result = "none"
  /\ wlog = <<>> /\ wfail = 0 /\ wafter = FALSE
  /\ ready = FALSE /\ errcount = 0 /\ polls = 0 /\ resps = <<>>
  /\ zone_arg = <<>> /\ zone_code = 0 /\ zone_pkt = <<0, 0, 0>> /\ zone_str = <<>>
  /\ sidx = 0 /\ cmds = <<>> /\ cmds_boot = <<>> /\ queue = <<>>
  /\ state_code = 0 /\ state_str = ""
  /\ NotEditing

\* a turn of the poll, the reads that come back short among its reads
PollAnyRead == PollStepOn(ReadOutcomes \cup ShortReadOutcomes)

NextPoll == PollAnyRead

SpecPoll == InitPoll /\ [][NextPoll]_vars

\* ------------------------------ calls of the registry and of the driver
\* the zone-name lists _get_zone_codes is called with: the subsets of the
\* zone map's names, in every order
ZoneNameLists == UNION {KeyOrders(ks) : ks \in SUBSET DOMAIN zone_map}
\* the values of a zone byte get_zone_name is called with
ZoneByteValues == {0, 1, 2, 255}
ZonePkts == {<<b1, b2, b3>> : b1 \in ZoneByteValues, b2 \in ZoneByteValues,
                             b3 \in ZoneByteValues}

\* a controller and its driver after construction, no call made yet
InitCalls ==
  /\ ThemeFileInit(ThemeDir)
  /\ files = EmptyDir
  /\ pc = "constructed"
  /\ NotRunning

\* controller._get_zone_codes(zone_names)
GetZoneCodes ==
  /\ \E names \in ZoneNameLists :
       /\ zone_arg' = names
       /\ zone_code' = _get_zone_codes(names)
  /\ pc' = "_get_zone_codes"
  /\ UNCHANGED <<theme, theme_states, driverVars, pollVars, sidx, cmds, cmds_boot,
                 queue, zone_pkt, zone_str, stateVars, fileVars, editVars>>

\* controller._get_no_zone_code()
GetNoZoneCode ==
  /\ zone_code' = _get_no_zone_code
  /\ pc' = "_get_no_zone_code"
  /\ UNCHANGED <<theme, theme_states, driverVars, pollVars, sidx, cmds, cmds_boot,
                 queue, zone_arg, zone_pkt, zone_str, stateVars, fileVars, editVars>>

\* controller.get_zone_name(pkt), on the zone bytes of a packet that carries
\* the zone code returned last, or on other zone bytes
GetZoneName ==
  /\ \E pkt \in ZonePkts \cup {zone_bytes(zone_code)} :
       /\ zone_pkt' = pkt
       /\ zone_str' = get_zone_name(pkt)
  /\ pc' = "get_zone_name"
  /\ UNCHANGED <<theme, theme_states, driverVars, pollVars, sidx, cmds, cmds_boot,
                 queue, zone_arg, zone_code, stateVars, fileVars, editVars>>

\* driver.acquire(): it returns at line 126 when control is taken already
DriverAcquire ==
  /\ \E path_exists \in BOOLEAN :
       LET r == acquire(control_taken, path_exists)
       IN /\ control_taken' = r.control_taken
          /\ exc' = IF r.raises THEN "IOError" ELSE "none"
  /\ pc' = IF control_taken THEN "acquire:126" ELSE "acquire"
  /\ UNCHANGED <<theme, theme_states, zoneVars, stateVars, fileVars, result, wlog, wfail,
                 wafter,
                 pollVars, sidx, cmds, cmds_boot, queue, editVars>>

\* driver.release(): it returns at line 154 when control is not taken
DriverRelease ==
  /\ control_taken' = release(control_taken)
  /\ exc' = "none"
  /\ pc' = IF ~control_taken THEN "release:154" ELSE "release"
  /\ UNCHANGED <<theme, theme_states, zoneVars, stateVars, fileVars, result, wlog, wfail,
                 wafter,
                 pollVars, sidx, cmds, cmds_boot, queue, editVars>>

\* the state codes get_state_name is called on: the values of a byte
StateCodes == 0..255

\* a controller constructed, get_state_name about to be called on a code
InitStateName ==
  /\ ThemeFileInit(ThemeDir)
  /\ files = EmptyDir
  /\ pc = "constructed"
  /\ control_taken = FALSE /\ exc = "none" /\ result = "none"
  /\ wlog = <<>> /\ wfail = 0 /\ wafter = FALSE
  /\ ready = FALSE /\ errcount = 0 /\ polls = 0 /\ resps = <<>>
  /\ zone_arg = <<>> /\ zone_code = 0 /\ zone_pkt = <<0, 0, 0>> /\ zone_str = <<>>
  /\ sidx = 0 /\ cmds = <<>> /\ cmds_boot = <<>> /\ queue = <<>>
  /\ state_code \in StateCodes
  /\ state_str = ""
  /\ NotEditing

\* controller.get_state_name(state)
GetStateName ==
  /\ pc = "constructed"
  /\ state_str' = get_state_name(state_code)
  /\ pc' = "get_state_name"
  /\ UNCHANGED <<theme, theme_states, driverVars, pollVars, sidx, cmds, cmds_boot,
                 queue, zoneVars, state_code, fileVars, editVars>>

NextStateName == GetStateName

SpecStateName == InitStateName /\ [][NextStateName]_vars

NextCalls ==
  \/ GetZoneCodes
  \/ GetNoZoneCode
  \/ GetZoneName
  \/ DriverAcquire
  \/ DriverRelease

SpecCalls == InitCalls /\ [][NextCalls]_vars

\* ------------------------------------------------- properties: compiler
IsActionPkt(p) == p.cmd \in {"set_colour", "set_blink_colour", "set_morph_colour"}

CountCmd(pkts, kinds) == Cardinality({i \in DOMAIN pkts : pkts[i].cmd \in kinds})

ActionKinds == {"set_colour", "set_blink_colour", "set_morph_colour"}

\* an action whose colour count matches the arity of its (known) type
WellFormed(action) ==
  LET t == get_action_type(action)
      n == Len(get_action_colours(action))
  IN \/ t \in {KW_ACTION_TYPE_FIXED, KW_ACTION_TYPE_BLINK} /\ n = 1
     \/ t = KW_ACTION_TYPE_MORPH /\ n = 2

\* a state-item that produces at least one action packet
Producing(state_item) ==
  \E k \in DOMAIN get_loop_items(state_item) : WellFormed(get_loop_items(state_item)[k])

\* N: the number of items of a state that produce at least one action packet
NProducing(th, state_name) ==
  LET state_items == get_state_items(th, state_name)
  IN Cardinality({i \in DOMAIN state_items : Producing(state_items[i])})

\* the number of well-formed actions in a sequence of state-items
RECURSIVE NWellFormedIn(_)
NWellFormedIn(state_items) ==
  IF state_items = <<>> THEN 0
  ELSE LET loop == get_loop_items(Head(state_items))
       IN Cardinality({k \in DOMAIN loop : WellFormed(loop[k])})
          + NWellFormedIn(Tail(state_items))

\* the number of well-formed actions in the items of a state
NWellFormed(th, state_name) == NWellFormedIn(get_state_items(th, state_name))

\* the state whose compilation the last compiler call returned
CompiledState == state_order[sidx]
NormalPassDone == pc = "compiled"
BootPassDone == pc = "compiled_boot"

\* C6, as stated: in the normal pass every action packet is immediately
\* preceded by a save-next packet, every loop-block-end packet immediately
\* follows an action packet, and there are as many save-next packets as
\* action packets.
C6_SaveNextPerActionOnly ==
  NormalPassDone =>
    /\ \A i \in DOMAIN cmds :
         IsActionPkt(cmds[i]) => i > 1 /\ cmds[i - 1].cmd = "save_next"
    /\ \A i \in DOMAIN cmds :
         cmds[i].cmd = "loop_block_end" => i > 1 /\ IsActionPkt(cmds[i - 1])
    /\ CountCmd(cmds, {"save_next"}) = CountCmd(cmds, ActionKinds)

\* the theme of the example: one item with one fixed action
OneFixedTheme(zones, colour) ==
  set_zone_actions(EmptyTheme, STATE_BOOT, zones,
                   <<make_zone_action(KW_ACTION_TYPE_FIXED, <<colour>>)>>)

\* C6, amended: in the normal pass every action packet is immediately
\* preceded by a save-next packet of the compiled state, and every
\* loop-block-end packet is immediately preceded by a save-next packet of its
\* own, which immediately follows the item's last action packet; every
\* save-next packet is followed by an action or a loop-block-end packet; so
\* there are as many save-next packets as action packets plus loop-block-end
\* packets (one fixed action compiles to save-next, set-colour, save-next,
\* loop-block-end, save).
C6_SaveNextBeforeActionsAndBlockEnd ==
  NormalPassDone =>
    /\ \A i \in DOMAIN cmds :
         IsActionPkt(cmds[i]) =>
           i > 1 /\ cmds[i - 1] = make_cmd_save_next(state_map[CompiledState])
    /\ \A i \in DOMAIN cmds :
         cmds[i].cmd = "loop_block_end" =>
           /\ i > 2
           /\ cmds[i - 1] = make_cmd_save_next(state_map[CompiledState])
           /\ IsActionPkt(cmds[i - 2])
    /\ \A i \in DOMAIN cmds :
         cmds[i].cmd = "save_next" =>
           /\ i < Len(cmds)
           /\ IsActionPkt(cmds[i + 1]) \/ cmds[i + 1].cmd = "loop_block_end"
    /\ CountCmd(cmds, {"save_next"})
         = CountCmd(cmds, ActionKinds) + CountCmd(cmds, {"loop_block_end"})
    /\ \A zones \in ZoneLists :
         theme = OneFixedTheme(zones, Colour1) /\ CompiledState = STATE_BOOT =>
           cmds = << make_cmd_save_next(BOOT),
                     make_cmd_set_colour(1, zone_map[zones[1]], Colour1),
                     make_cmd_save_next(BOOT),
                     make_cmd_loop_block_end,
                     make_cmd_save >>

\* a normal pass over an item of two action packets has returned
C6_Witness ==
  /\ NormalPassDone
  /\ CountCmd(cmds, ActionKinds) = 2
  /\ CountCmd(cmds, {"loop_block_end"}) = 1

\* C7: the normal pass outputs exactly N loop-block-end packets, N the number
\* of state-items that produce at least one action packet; when N > 0 it
\* outputs exactly one save packet, and that packet is the last one; when
\* N = 0 the output is empty.
C7_BlockEndsAndTrailingSave ==
  NormalPassDone =>
    LET N == NProducing(theme, CompiledState)
    IN /\ CountCmd(cmds, {"loop_block_end"}) = N
       /\ N > 0 => /\ CountCmd(cmds, {"save"}) = 1
                   /\ cmds[Len(cmds)] = make_cmd_save
       /\ N = 0 => cmds = <<>>

\* a normal pass over two producing items has returned
C7_Witness ==
  /\ NormalPassDone
  /\ NProducing(theme, CompiledState) = 2
  /\ CountCmd(cmds, {"save"}) = 1

\* C8: the boot-replay pass emits no save-next and no save packet, and its
\* output ends with one synthetic block, a set-colour packet with colour
\* (0,0,0) followed by a loop-block-end packet: the only block besides the N
\* blocks of the items.
C8_BootReplayNoSaveEndsBlack ==
  BootPassDone =>
    LET n == Len(cmds_boot)
    IN /\ CountCmd(cmds_boot, {"save_next", "save"}) = 0
       /\ n >= 2
       /\ cmds_boot[n] = make_cmd_loop_block_end
       /\ cmds_boot[n - 1].cmd = "set_colour"
       /\ cmds_boot[n - 1].c1 = <<0, 0, 0>>
       /\ CountCmd(cmds_boot, {"loop_block_end"}) = NProducing(theme, STATE_BOOT) + 1
       /\ CountCmd(cmds_boot, ActionKinds) = NWellFormed(theme, STATE_BOOT) + 1

\* a boot-replay pass over a Boot state with a producing item has returned
C8_Witness ==
  /\ BootPassDone
  /\ NProducing(theme, STATE_BOOT) >= 1

\* the union of the zone masks the items of a state name
RECURSIVE ReferencedZones(_)
ReferencedZones(state_items) ==
  IF state_items = <<>> THEN 0
  ELSE BitOr(_get_zone_codes(get_zone_names(Head(state_items))),
             ReferencedZones(Tail(state_items)))

\* the black set-colour packet that closes the boot replay
BlackPkt == cmds_boot[Len(cmds_boot) - 1]

\* C9, as stated: the zone operand of the closing black packet is the set of
\* bits of the 24-bit space not referenced by any item of the Boot state.
C9_BlackZoneIsUnreferencedByBoot ==
  BootPassDone =>
    BlackPkt.zone = FULL_ZONE_MASK - ReferencedZones(get_state_items(theme, STATE_BOOT))

\* C9, amended: the zone operand of the closing black packet is the set of
\* bits of the 24-bit space that belong to no zone of the controller's zone
\* map, whatever the Boot items reference: a value in 0..0xFFFFFF, disjoint
\* from every mask of the zone map and together with them covering the whole
\* space, hence disjoint from every zone mask used by the Boot items.
C9_BlackZoneIsComplementOfZoneMap ==
  BootPassDone =>
    /\ BlackPkt.zone \in 0..FULL_ZONE_MASK
    /\ \A z \in DOMAIN zone_map : BitAnd(BlackPkt.zone, zone_map[z]) = 0
    /\ BitOr(BlackPkt.zone, zone_codes_union(Len(zone_order))) = FULL_ZONE_MASK
    /\ BitAnd(BlackPkt.zone, ReferencedZones(get_state_items(theme, STATE_BOOT))) = 0

\* a boot-replay pass over Boot items that reference a zone with a bit set
C9_Witness ==
  /\ BootPassDone
  /\ NProducing(theme, STATE_BOOT) >= 1
  /\ ReferencedZones(get_state_items(theme, STATE_BOOT)) # 0

\* a loop without its malformed actions
RECURSIVE StripLoop(_)
StripLoop(loop_items) ==
  IF loop_items = <<>> THEN <<>>
  ELSE (IF WellFormed(Head(loop_items)) THEN <<Head(loop_items)>> ELSE <<>>)
       \o StripLoop(Tail(loop_items))

\* a theme without its malformed actions
StripTheme(th) ==
  [k \in DOMAIN th |->
     IF k = KW_SPEED THEN th[k]
     ELSE [i \in DOMAIN th[k] |->
             IF KW_LOOP \in DOMAIN th[k][i]
               THEN [th[k][i] EXCEPT ![KW_LOOP] = StripLoop(@)]
               ELSE th[k][i]]]

\* C10: a malformed action (colour count not the arity of its type, or an
\* unknown type) contributes no packet and compilation goes on: either pass
\* returns what it returns for the theme without the malformed actions, and
\* has one action packet per well-formed action.
C10_MalformedActionsSkipped ==
  /\ NormalPassDone =>
       /\ cmds = _make_zone_cmds(StripTheme(theme), CompiledState, FALSE)
       /\ CountCmd(cmds, ActionKinds) = NWellFormed(theme, CompiledState)
  /\ BootPassDone =>
       /\ cmds_boot = _make_zone_cmds(StripTheme(theme), STATE_BOOT, TRUE)
       /\ CountCmd(cmds_boot, ActionKinds) = NWellFormed(theme, STATE_BOOT) + 1

\* a pass has returned for a loop with a malformed action before a well-formed one
C10_Witness ==
  /\ NormalPassDone
  /\ \E i \in DOMAIN get_state_items(theme, CompiledState) :
       LET loop == get_loop_items(get_state_items(theme, CompiledState)[i])
       IN /\ Len(loop) = 2
          /\ ~WellFormed(loop[1])
          /\ WellFormed(loop[2])
  /\ cmds # <<>>

\* ------------------------------------------------ properties: set_theme
\* the normal-pass packets of the states from the i-th on, in state_map order
RECURSIVE StatePackets(_, _)
StatePackets(th, i) ==
  IF i > Len(state_order) THEN <<>>
  ELSE _make_zone_cmds(th, state_order[i], FALSE) \o StatePackets(th, i + 1)

\* n get-status packets
StatusPackets(n) == [i \in 1..n |-> make_cmd_get_status]

\* the kinds of packet the compiler returns
CompiledKinds ==
  {"set_colour", "set_blink_colour", "set_morph_colour", "save_next",
   "loop_block_end", "save"}

\* C1: when set_theme exits, by return or by an exception raised at acquire
\* or at any later step of the try block, the driver's control-taken flag is
\* False.
C1_ReleasedOnEveryExit ==
  /\ pc = "done" => control_taken = FALSE
  /\ result # "none" <=> pc = "done"

\* set_theme has ended with an exception raised after control was taken and
\* packets were sent
C1_Witness ==
  /\ pc = "done"
  /\ result = "raised"
  /\ exc = "Exception"
  /\ Len(wlog) > 2

\* C2, as stated: the readiness poll sends at most 10 get-status packets,
\* whatever the reads return.
C2_PollSendsAtMostTen == polls <= max_retries

\* C3: in a set_theme run that returns normally the packets handed to the
\* transport are, in this order: one get-status ping, one reset, the
\* get-status polls, the compiled packets of each state in state_map order,
\* one set-speed packet, the boot replay, one transmit/execute packet. No
\* compiled packet is handed over before the poll has ended and none after
\* the transmit/execute packet.
C3_PacketOrder ==
  /\ result = "returned" =>
       /\ polls >= 1
       /\ wlog = <<make_cmd_get_status>>
                 \o <<make_cmd_reset(RESET_ALL_LIGHTS_ON)>>
                 \o StatusPackets(polls)
                 \o StatePackets(theme, 1)
                 \o <<make_cmd_set_speed(get_speed(theme))>>
                 \o _make_zone_cmds(theme, STATE_BOOT, TRUE)
                 \o <<make_cmd_transmit_execute>>
       /\ CountCmd(wlog, {"set_speed"}) = 1
       /\ CountCmd(wlog, {"transmit_execute"}) = 1
       /\ CountCmd(wlog, {"reset"}) = 1
  /\ pc \in {"acquire", "ping", "reset", "poll"} =>
       CountCmd(wlog, CompiledKinds \cup {"set_speed", "transmit_execute"}) = 0
  /\ \A i \in DOMAIN wlog : wlog[i].cmd = "transmit_execute" => i = Len(wlog)

\* set_theme has returned after more than one poll, for a theme with packets
\* in two states
C3_Witness ==
  /\ result = "returned"
  /\ polls >= 2
  /\ {STATE_BOOT, STATE_AC_ON} \subseteq DOMAIN theme
  /\ wfail = 0

\* C4: when the interface path is absent at acquire, acquire raises, the
\* control-taken flag is not set, no packet is handed to the transport, and
\* set_theme ends by raising the error to its caller.
C4_AcquireFailureAborts ==
  exc = "IOError" =>
    /\ control_taken = FALSE
    /\ wlog = <<>>
    /\ polls = 0
    /\ pc \in {"finally", "done"}
    /\ pc = "done" => result = "raised"

\* set_theme has ended after acquire raised
C4_Witness ==
  /\ exc = "IOError"
  /\ pc = "done"

\* C5, as stated: after a transport write failure no later packet is handed
\* to the transport or written, and set_theme ends by raising.
C5_WriteFailurePropagates ==
  wfail # 0 =>
    /\ Len(wlog) = wfail
    /\ ~wafter
    /\ pc = "done" => result = "raised"

\* ---------------------------------------------- properties: zone registry
\* the union of the masks of all zones of the zone map
AllZones == zone_codes_union(Len(zone_order))

\* the union of the masks of a set of zone names
RECURSIVE MaskOf(_)
MaskOf(names) ==
  IF names = {} THEN 0
  ELSE LET n == CHOOSE x \in names : TRUE
       IN BitOr(zone_map[n], MaskOf(names \ {n}))

Range(seq) == {seq[i] : i \in DOMAIN seq}

\* C11, as stated: the zone masks of the controller are pairwise disjoint,
\* their union lies in 0..0xFFFFFF, and the value _get_no_zone_code returns
\* lies in 0..0xFFFFFF, is disjoint from the union and, OR-ed with it, gives
\* exactly 0xFFFFFF.
C11_NoZoneCodeCompletesTheSpace ==
  /\ \A a, b \in DOMAIN zone_map : a # b => BitAnd(zone_map[a], zone_map[b]) = 0
  /\ AllZones \in 0..FULL_ZONE_MASK
  /\ pc = "_get_no_zone_code" =>
       /\ zone_code \in 0..FULL_ZONE_MASK
       /\ BitAnd(AllZones, zone_code) = 0
       /\ BitOr(AllZones, zone_code) = FULL_ZONE_MASK

\* the pieces of a string before its first ","
RECURSIVE FirstToken(_)
FirstToken(str) ==
  IF str = <<>> \/ Head(str) = "," THEN <<>>
  ELSE <<Head(str)>> \o FirstToken(Tail(str))

\* str.split(","), for a string that is not empty
RECURSIVE SplitCommas(_)
SplitCommas(str) ==
  IF str = <<>> THEN <<>>
  ELSE LET t == FirstToken(str)
       IN <<t>> \o SplitCommas(SubSeq(str, Len(t) + 2, Len(str)))

IsUnknownToken(t) ==
  Len(t) >= 4 /\ t[1] = "UNKNOWN(" /\ t[2] = "0x" /\ t[Len(t)] = ")"

\* the number a sequence of hex digits writes
RECURSIVE HexValue(_)
HexValue(digits) ==
  IF digits = <<>> THEN 0
  ELSE 16 * HexValue(SubSeq(digits, 1, Len(digits) - 1))
       + (CHOOSE d \in 0..15 : HexDigit(d) = digits[Len(digits)])

\* the value printed in an UNKNOWN(<hex>) token
UnknownValue(t) == HexValue(SubSeq(t, 3, Len(t) - 1))

\* the tokens of the string get_zone_name returned last, and those of them
\* that are names, and those that are UNKNOWN tokens
ZoneTokens == SplitCommas(zone_str)
NameTokens == {i \in DOMAIN ZoneTokens : ~IsUnknownToken(ZoneTokens[i])}
UnknownTokens == {i \in DOMAIN ZoneTokens : IsUnknownToken(ZoneTokens[i])}
ListedNames == {ZoneTokens[i][1] : i \in NameTokens}
ZoneMaskOfPkt == zone_pkt[1] * 65536 + zone_pkt[2] * 256 + zone_pkt[3]

\* get_zone_name has returned for the zone bytes that encode the code
\* _get_zone_codes returned for zone_arg
DecodedZoneCodes ==
  /\ pc = "get_zone_name"
  /\ zone_code = _get_zone_codes(zone_arg)
  /\ zone_pkt = zone_bytes(zone_code)

\* C12, as stated: for every subset S of the known zone names, get_zone_name
\* of the three-byte encoding of _get_zone_codes(S) is a comma-joined list
\* whose names are exactly S, with no UNKNOWN token.
C12_ZoneNameInvertsZoneCodes ==
  DecodedZoneCodes =>
    /\ UnknownTokens = {}
    /\ \A i \in NameTokens : Len(ZoneTokens[i]) = 1
    /\ ListedNames = Range(zone_arg)

\* C13: for every 24-bit mask, get_zone_name accounts for every set bit
\* exactly once: the listed names are zones of the map, each listed once,
\* with pairwise disjoint masks; there is at most one UNKNOWN token, it is
\* present exactly when the mask has bits outside all known zones, and the
\* value it prints is the mask with all known zone bits cleared; the listed
\* masks and the residual are disjoint and together give the mask.
C13_ZoneNameAccountsForEveryBit ==
  pc = "get_zone_name" =>
    LET m == ZoneMaskOfPkt
        cleared == BitAnd(m, BitNot(AllZones))
        residual == IF UnknownTokens = {} THEN 0
                    ELSE UnknownValue(ZoneTokens[CHOOSE i \in UnknownTokens : TRUE])
    IN /\ Cardinality(UnknownTokens) <= 1
       /\ UnknownTokens # {} <=> cleared # 0
       /\ residual = cleared
       /\ \A i \in NameTokens :
            /\ Len(ZoneTokens[i]) = 1
            /\ ZoneTokens[i][1] \in DOMAIN zone_map
            /\ BitAnd(m, zone_map[ZoneTokens[i][1]]) # 0
       /\ \A i, j \in NameTokens :
            i # j => /\ ZoneTokens[i] # ZoneTokens[j]
                     /\ BitAnd(zone_map[ZoneTokens[i][1]],
                                zone_map[ZoneTokens[j][1]]) = 0
       /\ BitAnd(MaskOf(ListedNames), residual) = 0
       /\ BitOr(MaskOf(ListedNames), residual) = m

\* get_zone_name has returned a zone name and an UNKNOWN token
C13_Witness ==
  /\ pc = "get_zone_name"
  /\ NameTokens # {}
  /\ UnknownTokens # {}
  /\ ZoneMaskOfPkt > 255

\* ---------------------------------------------------- properties: driver
\* C18: release is idempotent. A release call leaves control not taken and
\* raises nothing; called when control is not taken (never acquired, or
\* released already) it returns at once and changes no driver state; and a
\* second release leaves the state the first one left.
C18_ReleaseIdempotent ==
  [][pc' \in {"release", "release:154"} =>
       /\ control_taken' = FALSE
       /\ exc' = "none"
       /\ ~control_taken =>
            /\ pc' = "release:154"
            /\ UNCHANGED <<control_taken, result, wlog, wfail, wafter>>
       /\ release(control_taken') = control_taken']_vars

\* release has returned at once, control not being taken
C18_Witness ==
  /\ pc = "release:154"
  /\ control_taken = FALSE

\* ------------------------------------------- properties: readiness poll
Last(seq) == seq[Len(seq)]

\* a response whose first byte is STATUS_READY
ReadyResp(resp) == resp # <<>> /\ resp[1] = STATUS_READY

\* the get-status packets handed to the driver
GetStatusCount(log) == CountCmd(log, {"get_status"})

\* C14: a read in the readiness poll that returns a response whose first
\* byte is STATUS_READY ends the poll at once: ready is set, the loop is left
\* for the transmission phase, the failure counter keeps its value, and from
\* then on no get-status packet is sent.
C14_ReadyResponseEndsPoll ==
  [][/\ (pc = "poll" /\ polls' = polls + 1 /\ ReadyResp(Last(resps'))) =>
          /\ ready'
          /\ pc' = "compile"
          /\ errcount' = errcount
     /\ pc \notin {"acquire", "ping", "reset", "poll"} =>
          /\ polls' = polls
          /\ GetStatusCount(wlog') = GetStatusCount(wlog)]_vars

\* the poll has ended on a READY response after two reads without data
C14_Witness ==
  /\ pc = "compile"
  /\ ready
  /\ ReadyResp(Last(resps))
  /\ errcount = 2
  /\ polls >= 3

\* C15, as stated: whenever the poll has ended Ready without a READY status
\* byte, the three most recent attempts all failed to read data, with no
\* answered attempt between them.
C15_AssumedReadyAfterThreeConsecutive ==
  (ready /\ ~ReadyResp(Last(resps))) =>
    /\ polls >= 3
    /\ resps = << <<>>, <<>>, <<>> >>

\* C16, as stated: when the bound of the poll (10 attempts) is exhausted
\* without Ready the poll returns, raising nothing, and set_theme goes on to
\* the transmission phase and ends with the execute packet.
C16_PollReturnsAtTheBound ==
  (polls >= max_retries /\ ~ready) =>
    /\ pc # "poll"
    /\ (pc = "done" /\ exc = "none") =>
         /\ result = "returned"
         /\ Last(wlog) = make_cmd_transmit_execute

\* ---------------------------------------- properties: transmission order
\* the normal-pass packets of the states of a list, in the order of the list
RECURSIVE GroupsIn(_, _)
GroupsIn(th, order) ==
  IF order = <<>> THEN <<>>
  ELSE _make_zone_cmds(th, Head(order), FALSE) \o GroupsIn(th, Tail(order))

\* the packets written after the ping, the reset and the polls, as many as
\* the states of the theme contribute
StateGroupsWritten ==
  SubSeq(wlog, polls + 3, polls + 2 + Len(GroupsIn(theme, state_order)))

\* C17, as stated: the per-state packet groups are written in theme order:
\* of two states that contribute packets, the one that comes first in the
\* theme has all its packets written before any packet of the other.
C17_StateGroupsInThemeOrder ==
  result = "returned" => StateGroupsWritten = GroupsIn(theme, theme_states)

\* C17, amended: the per-state packet groups are written in the order of the
\* controller's state_map (Boot, AC Sleep, AC Charged, AC On for the ASM100),
\* whatever the order of the states in the theme: of two states that
\* contribute packets, the one that comes first in state_map has all its
\* packets written before any packet of the other.
C17_StateGroupsInStateMapOrder ==
  result = "returned" =>
    /\ StateGroupsWritten = GroupsIn(theme, state_order)
    /\ \A i, j \in DOMAIN state_order :
         i < j =>
           LET before == Len(GroupsIn(theme, SubSeq(state_order, 1, i)))
               gi == _make_zone_cmds(theme, state_order[i], FALSE)
               gj == _make_zone_cmds(theme, state_order[j], FALSE)
               upto == Len(GroupsIn(theme, SubSeq(state_order, 1, j - 1)))
           IN /\ SubSeq(StateGroupsWritten, before - Len(gi) + 1, before) = gi
              /\ SubSeq(StateGroupsWritten, upto + 1, upto + Len(gj)) = gj

\* set_theme has returned for a theme that holds AC On before Boot
C17_Witness ==
  /\ result = "returned"
  /\ theme_states = <<STATE_AC_ON, STATE_BOOT>>
  /\ wfail = 0

\* C19: after a successful acquire the first packet set_theme writes is a
\* get-status ping and the second is a reset packet with the code registered
\* for "all-lights-on"; whatever the read after the ping returns, set_theme
\* goes on to the reset and raises nothing.
C19_PingThenResetAllLightsOn ==
  /\ [](/\ Len(wlog) >= 1 => wlog[1] = make_cmd_get_status
        /\ Len(wlog) >= 2 =>
             /\ wlog[2].cmd = "reset"
             /\ wlog[2].arg \in DOMAIN reset_types
             /\ reset_types[wlog[2].arg] = "all-lights-on")
  /\ [][(pc = "ping" /\ wlog' # wlog) => (pc' = "reset" /\ exc' = "none")]_vars

\* the reset has been written after a ping whose read returned nothing
C19_Witness ==
  /\ pc = "poll"
  /\ polls = 0
  /\ resps = << <<>> >>
  /\ Len(wlog) = 2

\* ------------------------------------- properties: items without actions
\* a state-item whose loop is neither missing nor empty
HasLoopItems(state_item) == get_loop_items(state_item) # <<>>

\* a theme without the state-items whose loop is missing or empty
WithoutEmptyItems(th) ==
  [k \in DOMAIN th |->
     IF k = KW_SPEED THEN th[k] ELSE SelectSeq(th[k], HasLoopItems)]

\* C20: a state-item whose loop is empty or missing contributes no packet in
\* either pass: the pass returns what it returns for the theme without such
\* items (the same packets, with the same block numbers), and for a state
\* that holds only such items the normal pass returns nothing and the boot
\* pass only its closing black block.
C20_EmptyLoopItemContributesNothing ==
  /\ NormalPassDone =>
       /\ cmds = _make_zone_cmds(WithoutEmptyItems(theme), CompiledState, FALSE)
       /\ get_state_items(WithoutEmptyItems(theme), CompiledState) = <<>> =>
            cmds = <<>>
  /\ BootPassDone =>
       /\ cmds_boot = _make_zone_cmds(WithoutEmptyItems(theme), STATE_BOOT, TRUE)
       /\ get_state_items(WithoutEmptyItems(theme), STATE_BOOT) = <<>> =>
            cmds_boot = <<make_cmd_set_colour(1, _get_no_zone_code, <<0, 0, 0>>),
                          make_cmd_loop_block_end>>

\* a normal pass has returned for a state whose first item has no loop entry
\* and whose second item has actions
C20_Witness ==
  /\ NormalPassDone
  /\ Len(get_state_items(theme, CompiledState)) = 2
  /\ KW_LOOP \notin DOMAIN get_state_items(theme, CompiledState)[1]
  /\ Producing(get_state_items(theme, CompiledState)[2])
  /\ cmds # <<>>

\* ------------------------------------- properties: absent states, speed
\* the states of state_map the theme holds, in state_map order
StatesInTheme == SelectSeq(state_order, LAMBDA n : n \in DOMAIN theme)

\* C21: for a state of state_map that the theme does not hold, the normal
\* pass returns the empty list and set_theme writes no packet for it: the
\* state packets of a run are those of the states the theme holds.
C21_AbsentStateCompilesToNothing ==
  /\ (pc = "send" /\ state_order[sidx] \notin DOMAIN theme) =>
       /\ cmds = <<>>
       /\ queue = <<>>
  /\ result = "returned" =>
       /\ StateGroupsWritten = GroupsIn(theme, StatesInTheme)
       /\ Len(wlog) = polls + 4 + Len(GroupsIn(theme, StatesInTheme))
                      + Len(_make_zone_cmds(theme, STATE_BOOT, TRUE))

\* the commands of AC Sleep, which the theme lacks, have been compiled after
\* the Boot packets of the theme were written
C21_Witness ==
  /\ pc = "send"
  /\ state_order[sidx] = STATE_AC_SLEEP
  /\ STATE_BOOT \in DOMAIN theme
  /\ STATE_AC_SLEEP \notin DOMAIN theme
  /\ CountCmd(wlog, {"save"}) = 1

\* the set-speed packets handed to the driver
SpeedPackets == {i \in DOMAIN wlog : wlog[i].cmd = "set_speed"}

\* C24: the one set-speed packet of a set_theme run carries the theme's
\* speed when the theme has a speed entry, and DEFAULT_SPEED (200 for the
\* ASM100) when it has none, the empty theme included.
C24_SpeedPacketCarriesThemeSpeedOrDefault ==
  /\ Cardinality(SpeedPackets) <= 1
  /\ result = "returned" => Cardinality(SpeedPackets) = 1
  /\ \A i \in SpeedPackets :
       wlog[i].arg = IF KW_SPEED \in DOMAIN theme THEN theme[KW_SPEED] ELSE 200

\* set_theme has returned for the empty theme
C24_Witness ==
  /\ result = "returned"
  /\ theme = EmptyTheme
  /\ \E i \in SpeedPackets : wlog[i].arg = DEFAULT_SPEED

\* ------------------------------------------- properties: frame of a run
\* C23: a set_theme run and the compiler calls in it leave the theme (its
\* states, items, loops, colours and speed) as it was; every normal-pass
\* call returns a list built from nothing but the theme and the state, and
\* the boot list built with the Boot state is not touched by the later
\* calls. (zone_map and state_map are assigned at construction only.)
C23_CompilationLeavesThemeUnchanged ==
  [][/\ theme' = theme
     /\ theme_states' = theme_states
     /\ (pc = "compile" /\ pc' = "send") =>
          /\ cmds' = _make_zone_cmds(theme, state_order[sidx], FALSE)
          /\ state_order[sidx] = STATE_BOOT =>
               cmds_boot' = _make_zone_cmds(theme, STATE_BOOT, TRUE)
          /\ state_order[sidx] # STATE_BOOT => cmds_boot' = cmds_boot]_vars

\* the last state has been compiled for a theme with packets in Boot and in
\* AC On
C23_Witness ==
  /\ pc = "send"
  /\ sidx = Len(state_order)
  /\ {STATE_BOOT, STATE_AC_ON} \subseteq DOMAIN theme
  /\ cmds # <<>>
  /\ Len(cmds_boot) > 2

\* --------------------------------- properties: zones of the compiled items
\* the items of a state that produce action packets, in order
ProducingItems(state_items) == SelectSeq(state_items, LAMBDA it : Producing(it))

\* the union of the masks of the names of an item that the zone map has
ItemMask(state_item) == MaskOf(Range(get_zone_names(state_item)) \cap DOMAIN zone_map)

\* the list the last compiler call returned
Compiled == IF BootPassDone THEN cmds_boot ELSE cmds

\* C22: the zone operand of the action packets of an item is the OR of the
\* masks of those of its zone names that the zone map has, whatever other
\* names it lists; an item without a "zones" entry is compiled all the same
\* and its action packets carry zone operand 0.
C22_UnknownZoneNamesIgnored ==
  (NormalPassDone \/ BootPassDone) =>
    LET items == ProducingItems(get_state_items(theme, CompiledState))
    IN /\ \A k \in DOMAIN items :
            \E i \in DOMAIN Compiled :
              IsActionPkt(Compiled[i]) /\ Compiled[i].block = k
       /\ \A i \in DOMAIN Compiled :
            (IsActionPkt(Compiled[i]) /\ Compiled[i].block <= Len(items)) =>
              /\ Compiled[i].zone = ItemMask(items[Compiled[i].block])
              /\ KW_ZONES \notin DOMAIN items[Compiled[i].block] =>
                   Compiled[i].zone = 0

\* a normal pass has compiled an item without zones and an item naming an
\* unknown zone beside SIDE_LEFT
C22_Witness ==
  /\ NormalPassDone
  /\ CompiledState = STATE_BOOT
  /\ theme = (STATE_BOOT :> <<FileItemNoZones, FileItemUnknownZone>>)
  /\ \E i, j \in DOMAIN cmds :
       /\ cmds[i].cmd = "set_colour" /\ cmds[i].block = 1 /\ cmds[i].zone = 0
       /\ cmds[j].cmd = "set_blink_colour" /\ cmds[j].block = 2
       /\ cmds[j].zone = SIDE_LEFT

\* ------------------------------------ properties: the two passes compared
\* a packet list without its save-next and save packets
WithoutSaves(pkts) == SelectSeq(pkts, LAMBDA p : p.cmd \notin {"save_next", "save"})

\* C30: the boot replay of the Boot state is the normal pass of the Boot
\* state without its save-next and save packets, followed by the black
\* set-colour packet and a loop-block-end.
C30_BootReplayIsNormalPassWithoutSaves ==
  BootPassDone =>
    cmds_boot = WithoutSaves(_make_zone_cmds(theme, STATE_BOOT, FALSE))
                \o <<make_cmd_set_colour(NProducing(theme, STATE_BOOT) + 1,
                                         _get_no_zone_code, <<0, 0, 0>>),
                      make_cmd_loop_block_end>>

\* a boot replay of a Boot state with two producing items has returned
C30_Witness ==
  /\ BootPassDone
  /\ NProducing(theme, STATE_BOOT) = 2
  /\ \E i \in DOMAIN cmds_boot : IsActionPkt(cmds_boot[i]) /\ cmds_boot[i].block = 2

\* ------------------------------------------ properties: theme file storage
\* the directory after the theme in memory has been written under a stem
Written(dir, stem) ==
  [f \in DOMAIN dir \cup {stem} |->
     IF f = stem THEN json_dump(theme, theme_states) ELSE dir[f]]

\* C28, as stated: save() without a name raises nothing; it writes the theme
\* in memory to the file of the current theme name, and when the theme name
\* is empty it writes no file and changes nothing. (A write the file system
\* refuses is left aside.)
C28_SaveWithoutNameWritesNamedFile ==
  [][(file_call' = "save" /\ file_arg' = None /\ ~file_logged') =>
       /\ file_result' = "None"
       /\ theme' = theme
       /\ theme_name' = theme_name
       /\ files' = IF theme_name = "" THEN files ELSE Written(files, theme_name)]_vars

\* C29, as stated: applied() stores the theme in memory as the last applied
\* theme and leaves it in memory; load_last_theme returns True with the
\* stored theme in memory when one was stored, and False when none was;
\* either way it leaves the theme name empty. (A write the file system
\* refuses is left aside.)
C29_LoadLastThemeRestoresApplied ==
  [][/\ (file_call' = "applied" /\ ~file_logged') =>
          /\ file_result' = "None"
          /\ theme' = theme
          /\ files' = Written(files, LAST_THEME)
     /\ file_call' = "load_last_theme" =>
          /\ theme_name' = ""
          /\ IF LAST_THEME \in DOMAIN files
               THEN /\ file_result' = "True"
                    /\ files[LAST_THEME] = json_dump(theme', theme_states')
               ELSE file_result' = "False"]_vars

\* --------------------------------------- properties: the controller tables
\* C25, as stated: two distinct zone names never share a mask, and every
\* zone's mask has a bit set inside the 24-bit space, so that the code of a
\* single zone name is never 0.
C25_ZoneNamesMapOneToOne ==
  /\ \A a, b \in DOMAIN zone_map : a # b => zone_map[a] # zone_map[b]
  /\ \A a \in DOMAIN zone_map : BitAnd(zone_map[a], FULL_ZONE_MASK) # 0
  /\ (pc = "_get_zone_codes" /\ Len(zone_arg) = 1) =>
       zone_code \in 1..FULL_ZONE_MASK

\* the codes of the state table
StateCodesOfMap == {state_map[n] : n \in DOMAIN state_map}

\* C26: distinct state names have distinct codes; get_state_name gives back
\* the name of every code of the state table, and "UNKNOWN" for every code
\* no state has.
C26_StateNameInvertsStateMap ==
  /\ \A a, b \in DOMAIN state_map : a # b => state_map[a] # state_map[b]
  /\ Cardinality(StateCodesOfMap) = Len(state_order)
  /\ pc = "get_state_name" =>
       IF state_code \in StateCodesOfMap
         THEN state_str \in DOMAIN state_map /\ state_map[state_str] = state_code
         ELSE state_str = "UNKNOWN"

\* get_state_name has named the code of AC On
C26_Witness ==
  /\ pc = "get_state_name"
  /\ state_code = AC_ON
  /\ state_str = STATE_AC_ON

\* ---------------------------------------------- properties: short reads
\* C27, as stated: a read of the poll that returns no data or fewer bytes
\* than a packet has counts as a failed attempt, and the poll takes no
\* status from it: it ends Ready on it only by the count of failed attempts.
C27_ShortReadIsNoData ==
  [][(pc = "poll" /\ polls' = polls + 1 /\ Len(Last(resps')) < PACKET_LENGTH) =>
       /\ errcount' = errcount + 1
       /\ ready' = (errcount' >= assume_ready_after)]_vars

\* ------------------------------------- properties: block numbers and order
\* the well-formed actions of a state-item, in the order of its loop
WellFormedActions(state_item) ==
  SelectSeq(get_loop_items(state_item), LAMBDA a : WellFormed(a))

\* the places of the action packets of the last compilation
ActionPlaces == {i \in DOMAIN Compiled : IsActionPkt(Compiled[i])}

\* the producing items of the state compiled last
CompiledItems == ProducingItems(get_state_items(theme, CompiledState))

\* C31: block numbers start at 1 and grow by one per item that produces an
\* action packet: the k-th such item has as many action packets in block k
\* as it has well-formed actions, no action packet has another block number,
\* and the closing black packet of the boot replay has block number N + 1.
C31_BlockNumbersCountProducingItems ==
  (NormalPassDone \/ BootPassDone) =>
    LET N == Len(CompiledItems)
        top == IF BootPassDone THEN N + 1 ELSE N
    IN /\ \A i \in ActionPlaces : Compiled[i].block \in 1..top
       /\ \A i, j \in ActionPlaces : i < j => Compiled[i].block <= Compiled[j].block
       /\ \A k \in 1..N :
            Cardinality({i \in ActionPlaces : Compiled[i].block = k})
              = Len(WellFormedActions(CompiledItems[k]))
       /\ BootPassDone =>
            /\ BlackPkt.block = N + 1
            /\ Cardinality({i \in ActionPlaces : Compiled[i].block = N + 1}) = 1

\* a boot replay has returned for a state whose first item produces nothing
\* and whose second item produces a packet: that packet is in block 1, the
\* black packet in block 2
C31_Witness ==
  /\ BootPassDone
  /\ Len(get_state_items(theme, STATE_BOOT)) = 2
  /\ ~Producing(get_state_items(theme, STATE_BOOT)[1])
  /\ Producing(get_state_items(theme, STATE_BOOT)[2])
  /\ IsActionPkt(cmds_boot[1]) /\ cmds_boot[1].block = 1
  /\ BlackPkt.block = 2

\* the type and the colours an action packet was made from
ActionOfPkt(p) ==
  CASE p.cmd = "set_colour" -> make_zone_action(KW_ACTION_TYPE_FIXED, <<p.c1>>)
    [] p.cmd = "set_blink_colour" -> make_zone_action(KW_ACTION_TYPE_BLINK, <<p.c1>>)
    [] p.cmd = "set_morph_colour" ->
         make_zone_action(KW_ACTION_TYPE_MORPH, <<p.c1, p.c2>>)

\* the well-formed actions of a sequence of state-items, item after item
RECURSIVE ActionsInOrder(_)
ActionsInOrder(state_items) ==
  IF state_items = <<>> THEN <<>>
  ELSE WellFormedActions(Head(state_items)) \o ActionsInOrder(Tail(state_items))

\* the action packets the items produced (the black packet of the boot
\* replay is not one of them), in the order of the list
ItemPackets ==
  SelectSeq(IF BootPassDone THEN SubSeq(cmds_boot, 1, Len(cmds_boot) - 2) ELSE cmds,
            LAMBDA p : IsActionPkt(p))

\* C32: the action packets follow the order of the state-items and, within
\* an item, of the actions of its loop; the packets of an item are closed by
\* one loop-block-end before the first packet of the next item, and no
\* loop-block-end stands between two packets of one item.
C32_CompiledOrderIsThemeOrder ==
  (NormalPassDone \/ BootPassDone) =>
    /\ [i \in DOMAIN ItemPackets |-> ActionOfPkt(ItemPackets[i])]
         = ActionsInOrder(get_state_items(theme, CompiledState))
    /\ \A i, j \in ActionPlaces :
         i < j =>
           Cardinality({e \in (i + 1)..(j - 1) : Compiled[e].cmd = "loop_block_end"})
             = Compiled[j].block - Compiled[i].block
    /\ \A i \in ActionPlaces :
         \E e \in DOMAIN Compiled : e > i /\ Compiled[e].cmd = "loop_block_end"

\* a normal pass has returned for an item whose loop holds two different
\* well-formed actions
C32_Witness ==
  /\ NormalPassDone
  /\ Len(ItemPackets) = 2
  /\ ItemPackets[1].cmd # ItemPackets[2].cmd
  /\ ItemPackets[1].block = ItemPackets[2].block

\* ------------------------------------ properties: the transport is held
\* C33: in a run of set_theme the control-taken flag is True at every point
\* between a successful acquire and the release of the finally clause; it
\* changes only at acquire, to True, and at that release, to False; a packet
\* is handed to the driver only while the flag is True, and with the flag
\* False write_packet writes nothing and read_packet returns None.
C33_ControlHeldThroughoutRun ==
  /\ [](/\ pc \in InTry => control_taken
        /\ pc \in {"acquire", "done"} => ~control_taken
        /\ \A w \in WriteOutcomes : ~write_packet(FALSE, w)
        /\ \A r \in ReadOutcomes \cup ShortReadOutcomes : read_packet(FALSE, r) = <<>>)
  /\ [][/\ control_taken' # control_taken =>
             \/ pc = "acquire" /\ control_taken'
             \/ pc = "finally" /\ ~control_taken'
        /\ wlog' # wlog => control_taken /\ control_taken']_vars

\* a run has returned with every packet of a theme with two states written
\* to the control file, and the flag is False again
C33_Witness ==
  /\ result = "returned"
  /\ ~control_taken
  /\ wfail = 0
  /\ {STATE_BOOT, STATE_AC_ON} \subseteq DOMAIN theme
  /\ Last(wlog) = make_cmd_transmit_execute

\* --------------------------------------------- properties: no retries
\* the packets of a log other than get-status packets
CommandStream(log) == SelectSeq(log, LAMBDA p : p.cmd # "get_status")

\* C34: outside the readiness poll every packet gets one write attempt,
\* whether the write reaches the control file or not: a step of set_theme
\* hands one packet to the driver and moves on to the next packet, and the
\* run that returns has made one attempt for the ping, one for the reset and
\* one for each packet of the states, the speed, the boot replay and the
\* execute.
C34_OneWriteAttemptPerPacket ==
  /\ [](/\ (pc \in InTry \ {"ping"} \/ result = "returned") =>
             GetStatusCount(wlog) = polls + 1
        /\ result = "returned" =>
             CommandStream(wlog)
               = <<make_cmd_reset(RESET_ALL_LIGHTS_ON)>>
                 \o StatePackets(theme, 1)
                 \o <<make_cmd_set_speed(get_speed(theme))>>
                 \o _make_zone_cmds(theme, STATE_BOOT, TRUE)
                 \o <<make_cmd_transmit_execute>>)
  /\ [][wlog' # wlog =>
          /\ Len(wlog') = Len(wlog) + 1
          /\ pc \in {"send", "boot"} =>
               /\ queue # <<>>
               /\ Last(wlog') = Head(queue)
               /\ queue' = Tail(queue)
          /\ pc \in {"ping", "reset", "speed", "execute"} => pc' # pc]_vars

\* a run has returned although the write of a boot-replay packet did not
\* reach the control file
C34_Witness ==
  /\ result = "returned"
  /\ wfail > 0
  /\ wlog[wfail].cmd = "set_colour"
  /\ wlog[wfail].c1 = <<0, 0, 0>>

\* ------------------------------------------- properties: failed loads
\* the file load was called on is missing or cannot be parsed
LoadFailed ==
  /\ file_call = "load"
  /\ file_arg \notin DOMAIN files \/ ~files[file_arg].valid

\* C35, as stated: a load of a file that is missing or cannot be parsed
\* raises nothing and leaves the empty theme without a name, for which the
\* speed is the default, the normal pass of every state is empty and the
\* boot replay is the black block alone.
C35_FailedLoadLeavesInertTheme ==
  LoadFailed =>
    /\ file_result = "None"
    /\ theme = EmptyTheme
    /\ theme_name = ""
    /\ get_speed(theme) = DEFAULT_SPEED
    /\ \A i \in DOMAIN state_order : _make_zone_cmds(theme, state_order[i], FALSE) = <<>>
    /\ _make_zone_cmds(theme, STATE_BOOT, TRUE)
         = <<make_cmd_set_colour(1, _get_no_zone_code, <<0, 0, 0>>),
             make_cmd_loop_block_end>>

\* --------------------------------------------- properties: acquire twice
\* C36: acquire is idempotent once control is held. A call made while the
\* flag is True returns at line 126: whether or not the interface path still
\* exists it raises nothing, the flag stays True and no driver state changes,
\* and a further acquire would again leave the state as it is.
C36_AcquireIdempotentWhenHeld ==
  [][control_taken /\ pc' \in {"acquire", "acquire:126"} =>
       /\ pc' = "acquire:126"
       /\ exc' = "none"
       /\ UNCHANGED <<control_taken, result, wlog, wfail, wafter>>
       /\ \A path_exists \in BOOLEAN :
            acquire(control_taken', path_exists)
              = [control_taken |-> control_taken', raises |-> FALSE]]_vars

\* acquire has returned at once, control being held
C36_Witness ==
  /\ pc = "acquire:126"
  /\ control_taken
  /\ exc = "none"

\* ------------------------------------- properties: the last-theme file
\* C37: whatever theme file calls are made, theme_name is never the stem of
\* the last-applied-theme file, and a delete_theme_from_disk call leaves that
\* file as it is, removes no file but the one of the current theme, and
\* removes nothing and returns None when no theme is named.
C37_LastThemeNeverCurrentNorDeleted ==
  /\ [](theme_name # LAST_THEME)
  /\ [][file_call' = "delete_theme_from_disk" =>
          /\ LAST_THEME \in DOMAIN files =>
               /\ LAST_THEME \in DOMAIN files'
               /\ files'[LAST_THEME] = files[LAST_THEME]
          /\ DOMAIN files' \subseteq DOMAIN files
          /\ DOMAIN files \ DOMAIN files' \subseteq {theme_name}
          /\ theme_name = "" => files' = files /\ file_result' = "None"]_vars

\* a theme has been deleted from a directory that holds the last-theme file
C37_Witness ==
  /\ file_call = "delete_theme_from_disk"
  /\ file_result = "True"
  /\ LAST_THEME \in DOMAIN files
  /\ theme_name = ""

\* ------------------------------------------- properties: action edits
KnownTypes == {KW_ACTION_TYPE_FIXED, KW_ACTION_TYPE_BLINK, KW_ACTION_TYPE_MORPH}

\* the number of colours an action of this type takes
Arity(type) == IF type = KW_ACTION_TYPE_MORPH THEN 2 ELSE 1

\* the entries of an action dict other than the one under this key
Others(act, key) == [k \in DOMAIN act \ {key} |-> act[k]]

\* C38: set_action_colours stores the list in the action only when the action
\* has a type among fixed, blink and morph and the list has that type's number
\* of colours (1, 1, 2), changing nothing else of the action; otherwise the
\* action is as it was. set_action_type stores the type only when it is one
\* of fixed, blink, morph, changing nothing else; otherwise the action is as
\* it was.
C38_ActionEditsOnlyWhenValid ==
  /\ edit_call = "set_action_colours" =>
       LET type == get_action_type(edit_was)
       IN IF type \in KnownTypes /\ Len(edit_arg) = Arity(type)
            THEN /\ KW_ACTION_COLOURS \in DOMAIN edit_action
                 /\ edit_action[KW_ACTION_COLOURS] = edit_arg
                 /\ Others(edit_action, KW_ACTION_COLOURS)
                      = Others(edit_was, KW_ACTION_COLOURS)
            ELSE edit_action = edit_was
  /\ edit_call = "set_action_type" =>
       IF edit_arg \in KnownTypes
         THEN /\ KW_ACTION_TYPE \in DOMAIN edit_action
              /\ edit_action[KW_ACTION_TYPE] = edit_arg
              /\ Others(edit_action, KW_ACTION_TYPE) = Others(edit_was, KW_ACTION_TYPE)
         ELSE edit_action = edit_was

\* set_action_colours has been given one colour for a morph action that
\* holds two, and has left it alone
C38_Witness ==
  /\ edit_call = "set_action_colours"
  /\ get_action_type(edit_was) = KW_ACTION_TYPE_MORPH
  /\ Len(edit_arg) = 1
  /\ get_action_colours(edit_was) = <<Colour1, Colour2>>
  /\ edit_action = edit_was

\* ------------------------------------------- properties: zone actions
\* the places of the items of this list whose zone list contains the zone
Naming(items, zone) ==
  {i \in DOMAIN items :
     \E j \in DOMAIN get_zone_names(items[i]) : get_zone_names(items[i])[j] = zone}

\* the least of a set of places
First(places) == CHOOSE i \in places : \A j \in places : i <= j

\* a set_zone_actions step appends one item with zones and a loop to the
\* list of its state and leaves the items before it, and every other entry
\* of the theme, as they were
AppendsOneItem ==
  [][file_call' = "set_zone_actions" =>
       \E state \in DOMAIN theme' \ {KW_SPEED} :
         LET before == get_state_items(theme, state)
             after == theme'[state]
         IN /\ Len(after) = Len(before) + 1
            /\ SubSeq(after, 1, Len(before)) = before
            /\ DOMAIN Last(after) = {KW_ZONES, KW_LOOP}
            /\ \A k \in DOMAIN theme' \ {state} :
                 k \in DOMAIN theme /\ theme'[k] = theme[k]]_vars

\* C39, as stated: set_zone_actions appends one item and leaves the others;
\* get_zone_actions(state, z) returns the loop of the first item of the
\* state, in list order, whose zone list contains z, and [] when the state
\* or the zone is not in the theme.
C39_FirstNamingItemAnswers ==
  /\ AppendsOneItem
  /\ [](pc = "get_zone_actions" =>
          LET items == get_state_items(theme, zone_asked[1])
              named == Naming(items, zone_asked[2])
          IN zone_actions = IF named = {} THEN <<>>
                            ELSE get_loop_items(items[First(named)]))

\* C39, amended: set_zone_actions appends one item and leaves the others;
\* get_zone_actions(state, z) returns the loop of the first item of the
\* state, in list order, that has a loop and whose zone list contains z (an
\* item that names z but has no loop is passed over), and [] when there is
\* no such item or the state is not in the theme.
C39_FirstNamingItemWithLoopAnswers ==
  /\ AppendsOneItem
  /\ [](pc = "get_zone_actions" =>
          LET items == get_state_items(theme, zone_asked[1])
              named == {i \in Naming(items, zone_asked[2]) :
                          KW_LOOP \in DOMAIN items[i]}
          IN zone_actions = IF named = {} THEN <<>>
                            ELSE items[First(named)][KW_LOOP])

\* theme a, whose one item names SIDE_LEFT and has no loop, was loaded,
\* set_zone_actions has added actions for SIDE_LEFT, and get_zone_actions
\* has returned them
C39_Witness ==
  /\ pc = "get_zone_actions"
  /\ zone_asked = <<STATE_BOOT, "SIDE_LEFT">>
  /\ theme_name = "a"
  /\ Len(get_state_items(theme, STATE_BOOT)) = 2
  /\ theme[STATE_BOOT][1] = FileItemNoLoop
  /\ zone_actions # <<>>
  /\ zone_actions = theme[STATE_BOOT][2][KW_LOOP]

====
